---- MODULE Spec2Model ----
(***************************************************************************)
(* A model of quasar.py: the Gate and Circuit classes, the circuit         *)
(* transforms, the compressor and the state-vector simulator.              *)
(*                                                                         *)
(* Gate objects live in a heap and are named by their reference (their     *)
(* position in the heap), so that object identity and parameter aliasing   *)
(* are visible.  A Circuit is the record of its attributes N, gates (the   *)
(* OrderedDict, as the sequence of its entries in insertion order), Ts and *)
(* TAs.  Real parameters are modelled by integers; an angle theta is       *)
(* counted in quarter turns (theta = q * pi/2), which keeps every matrix   *)
(* entry an integer multiple of a power of 1/sqrt(2).                      *)
(***************************************************************************)
EXTENDS Integers, Sequences, FiniteSets, TLC

VARIABLES
    heap,      \* the Gate objects: heap[r] is the object with reference r
    circuit,   \* the Circuit under construction (self)
    call,      \* the last call made on the API and how it ended
    result     \* the Circuit returned by the last transform of circuit

vars == <<heap, circuit, call, result>>

(***************************************************************************)
(* Bounds of the model.                                                    *)
(***************************************************************************)
\* Circuit(N) is constructed with N in 1..MaxQubits
MaxQubits == 2
\* add_gate is offered the times -1..MaxTime
MaxTime == 2
\* at most MaxGates placements are made in one circuit
MaxGates == 3
\* at most MaxParamGates placements are made in a circuit whose parameters are set
MaxParamGates == 2
\* parameter vectors handed to set_param_values start at 0..MaxValue
MaxValue == 1
\* SpecSim: the qubits of a simulated circuit, its largest time, its gates
SimQubits == 3
SimTime == 2
SimGates == 3
\* SpecSim: the gates of a circuit that is simulated from every basis state
StepGates == 2
\* the longest list of times, circuits or qubits handed to a transform
MaxList == 2
\* the longest chain of gate applications on one state
MaxDepth == 2

(***************************************************************************)
(* Sequences.                                                              *)
(***************************************************************************)
Range(s) == {s[i] : i \in 1..Len(s)}

\* Python's comparison of two tuples of int: lexicographic, a proper prefix first
RECURSIVE TupleLess(_, _)
TupleLess(a, b) ==
    IF Len(b) = 0 THEN FALSE
    ELSE IF Len(a) = 0 THEN TRUE
    ELSE IF Head(a) < Head(b) THEN TRUE
    ELSE IF Head(a) > Head(b) THEN FALSE
    ELSE TupleLess(Tail(a), Tail(b))

\* insert x into the ascending list s, after the elements that are <= x
RECURSIVE InsertInt(_, _)
InsertInt(s, x) ==
    IF Len(s) = 0 THEN <<x>>
    ELSE IF x < Head(s) THEN <<x>> \o s
    ELSE <<Head(s)>> \o InsertInt(Tail(s), x)

\* sorted(s) for a list of int
RECURSIVE SortedInts(_)
SortedInts(s) ==
    IF Len(s) = 0 THEN <<>>
    ELSE InsertInt(SortedInts(SubSeq(s, 1, Len(s) - 1)), s[Len(s)])

\* max(S) and abs(x)
Max(S) == CHOOSE x \in S : \A y \in S : y <= x

Abs(x) == IF x < 0 THEN -x ELSE x

(***************************************************************************)
(* Arrays.  A numpy array of numbers is its entries in C order, d, each    *)
(* scaled by (1/sqrt 2)^k; a (2,2) array U has U[i, j] = d[2i + j + 1],    *)
(* a (4,4) array U[i, j] = d[4i + j + 1], which is also entry              *)
(* [i div 2, i mod 2, j div 2, j mod 2] of its (2,2,2,2) reshape.          *)
(***************************************************************************)
AllEven(d) == \A i \in 1..Len(d) : d[i] % 2 = 0

\* the one way of writing an array: no common factor 2 is left in the
\* entries while k >= 2
RECURSIVE Array(_, _)
Array(k, d) ==
    IF k >= 2 /\ AllEven(d) THEN Array(k - 2, [i \in 1..Len(d) |-> d[i] \div 2])
    ELSE [k |-> k, d |-> d]

\* the sum of f[i] for i in lo..hi
RECURSIVE Sum(_, _, _)
Sum(f, lo, hi) == IF lo > hi THEN 0 ELSE f[lo] + Sum(f, lo + 1, hi)

\* class Matrix
MatrixX == Array(0, <<0, 1, 1, 0>>)
MatrixH == Array(1, <<1, 1, 1, -1>>)
MatrixCX == Array(0, <<1, 0, 0, 0,  0, 1, 0, 0,  0, 0, 0, 1,  0, 0, 1, 0>>)
MatrixSWAP == Array(0, <<1, 0, 0, 0,  0, 0, 1, 0,  0, 1, 0, 0,  0, 0, 0, 1>>)

\* cos and sin of theta, theta counted in quarter turns
Cos(theta) == <<1, 0, -1, 0>>[(theta % 4) + 1]
Sin(theta) == <<0, 1, 0, -1>>[(theta % 4) + 1]

\* the Ufun of Gate.Ry: [[c, -s], [+s, c]]
MatrixRy(theta) == Array(0, <<Cos(theta), -Sin(theta), Sin(theta), Cos(theta)>>)

\* np.eye(2)
Eye2 == Array(0, <<1, 0, 0, 1>>)

\* np.dot(A, B) of two (n,n) arrays
Dot(n, A, B) ==
    Array(A.k + B.k,
          [x \in 1..n * n |->
             LET i == (x - 1) \div n
                 j == (x - 1) % n
             IN Sum([l \in 0..n - 1 |-> A.d[n * i + l + 1] * B.d[n * l + j + 1]], 0, n - 1)])

\* np.kron(A, B) of two (2,2) arrays, a (4,4) array
Kron(A, B) ==
    Array(A.k + B.k,
          [x \in 1..16 |->
             LET i == (x - 1) \div 4
                 j == (x - 1) % 4
             IN A.d[2 * (i \div 2) + (j \div 2) + 1] * B.d[2 * (i % 2) + (j % 2) + 1]])

\* np.einsum('ijkl->jilk', U2) of the (2,2,2,2) reshape of a (4,4) array:
\* entry [j, i, l, k] of the result is entry [i, j, k, l] of U2
SwapLegs(U) ==
    Array(U.k,
          [x \in 1..16 |->
             LET a == (x - 1) \div 8
                 b == ((x - 1) \div 4) % 2
                 c == ((x - 1) \div 2) % 2
                 e == (x - 1) % 2
             IN U.d[8 * b + 4 * a + 2 * e + c + 1]])

(***************************************************************************)
(* Gate (quasar.py, class Gate).                                           *)
(***************************************************************************)
\* Gate.__init__: the attributes of a Gate object.  U holds the matrix that
\* the Ufun of an explicit gate (Gate.U1, Gate.U2) closes over, <<>> otherwise.
Gate(N, name, params, U) ==
    [N |-> N, name |-> name, params |-> params, U |-> U]

\* The parameter-free gates of the standard library: class attributes, one
\* object each for the whole program.
GateX == Gate(1, "X", <<>>, <<>>)
GateH == Gate(1, "H", <<>>, <<>>)
GateCNOT == Gate(2, "CNOT", <<>>, <<>>)
GateSWAP == Gate(2, "SWAP", <<>>, <<>>)

\* Gate.Ry(theta): a new 1-body gate with the one parameter theta
GateRy(theta) == Gate(1, "Ry", << <<"theta", theta>> >>, <<>>)

\* Gate.SO42(...): a new 2-body gate with six parameters, in this order
GateSO42(thetaIY, thetaYI, thetaXY, thetaYX, thetaZY, thetaYZ) ==
    Gate(2, "SO42",
         << <<"thetaIY", thetaIY>>, <<"thetaYI", thetaYI>>,
            <<"thetaXY", thetaXY>>, <<"thetaYX", thetaYX>>,
            <<"thetaZY", thetaZY>>, <<"thetaYZ", thetaYZ>> >>,
         <<>>)

\* list(gate.params.keys())
ParamNames(G) == [i \in 1..Len(G.params) |-> G.params[i][1]]

\* key in gate.params
HasParam(G, name) == \E i \in 1..Len(G.params) : G.params[i][1] = name

\* gate.params[name], for a name that is present
ParamOf(G, name) ==
    LET i == CHOOSE j \in 1..Len(G.params) : G.params[j][1] = name
    IN G.params[i][2]

\* A faulty variant of set_param: the value goes to the first parameter,
\* whatever the name
set_param_first(G, name, value) ==
    IF ~HasParam(G, name) THEN [err |-> "not in params", gate |-> G]
    ELSE [err |-> "", gate |-> [G EXCEPT !.params[1] = <<G.params[1][1], value>>]]

\* A faulty variant of set_param: no check of the name, a name that is not
\* present becomes a new parameter
set_param_unchecked(G, name, value) ==
    IF ~HasParam(G, name)
    THEN [err |-> "", gate |-> [G EXCEPT !.params = Append(G.params, <<name, value>>)]]
    ELSE [err |-> "",
          gate |-> [G EXCEPT !.params =
                      [i \in 1..Len(G.params) |->
                         IF G.params[i][1] = name THEN <<name, value>> ELSE G.params[i]]]]

\* Gate.set_param(key, param): the error raised and the object afterwards
set_param(G, name, value) ==
    IF ~HasParam(G, name) THEN [err |-> "not in params", gate |-> G]
    ELSE [err |-> "",
          gate |-> [G EXCEPT !.params =
                      [i \in 1..Len(G.params) |->
                         IF G.params[i][1] = name THEN <<name, value>> ELSE G.params[i]]]]

\* Gate(N=3, Ufun, params, name, ascii_symbols) with no parameter: a 3-body
\* gate that a caller constructs, the class having no 3-body gate of its own
Gate3 == Gate(3, "G3", <<>>, <<>>)

\* Gate.U1(U), Gate.U2(U): a new explicit gate whose Ufun returns U
GateU1(U) == Gate(1, "U1", <<>>, U)

GateU2(U) == Gate(2, "U2", <<>>, U)

\* Gate.copy(): the same attributes, the parameter mapping copied
GateCopy(G) == Gate(G.N, G.name, G.params, G.U)

\* Gate.U: self.Ufun(self.params)
GateU(G) ==
    CASE G.name = "X" -> MatrixX
      [] G.name = "H" -> MatrixH
      [] G.name = "CNOT" -> MatrixCX
      [] G.name = "SWAP" -> MatrixSWAP
      [] G.name = "Ry" -> MatrixRy(ParamOf(G, "theta"))
      [] G.name = "U1" -> G.U
      [] G.name = "U2" -> G.U

\* The references of the library objects, which every heap starts with
RefX == 1
RefH == 2
RefCNOT == 3
RefSWAP == 4
Library == <<GateX, GateH, GateCNOT, GateSWAP>>

(***************************************************************************)
(* Circuit (quasar.py, class Circuit).                                     *)
(***************************************************************************)
\* Circuit.__init__
Circuit(N) == [N |-> N, gates |-> <<>>, Ts |-> <<>>, TAs |-> {}]

\* the value of `result` while the caller holds no derived circuit
NoCircuit == [N |-> 0, gates |-> <<>>, Ts |-> <<>>, TAs |-> {}]

\* Circuit.nmoment
nmoment(c) == IF Len(c.Ts) # 0 THEN c.Ts[Len(c.Ts)] + 1 ELSE 0

\* Circuit.ngate
ngate(c) == Len(c.gates)

\* the keys of the OrderedDict gates, in insertion order
Keys(c) == [i \in 1..Len(c.gates) |-> <<c.gates[i].T, c.gates[i].key>>]

\* (T, key2) in self.gates
HasKey(c, T, key2) == \E i \in 1..Len(c.gates) : c.gates[i].T = T /\ c.gates[i].key = key2

\* self.gates[(T, key2)], for a key that is present
GateOf(c, T, key2) ==
    LET i == CHOOSE j \in 1..Len(c.gates) : c.gates[j].T = T /\ c.gates[j].key = key2
    IN c.gates[i].gate

\* self.gates[(T, key2)] = gate: a present key keeps its place, a new one is appended
SetItem(gs, T, key2, g) ==
    IF \E i \in 1..Len(gs) : gs[i].T = T /\ gs[i].key = key2
    THEN [i \in 1..Len(gs) |->
            IF gs[i].T = T /\ gs[i].key = key2 THEN [gs[i] EXCEPT !.gate = g] ELSE gs[i]]
    ELSE Append(gs, [T |-> T, key |-> key2, gate |-> g])

\* The key argument of add_gate and gate is an int or a tuple of int: the
\* value records which (isint) and carries the int or the tuple.
IntKey(a) == [isint |-> TRUE, int |-> a, tuple |-> <<>>]

TupleKey(t) == [isint |-> FALSE, int |-> 0, tuple |-> t]

\* key2 = (key,) if isinstance(key, int) else key
Key2(key) == IF key.isint THEN <<key.int>> ELSE key.tuple

\* A faulty variant of CheckOpen: the loop that forgets to look the slot up
\* in TAs
RECURSIVE CheckOpenQubitOnly(_, _, _, _)
CheckOpenQubitOnly(c, T, key2, i) ==
    IF i > Len(key2) THEN [err |-> "", pos |-> 0]
    ELSE IF key2[i] >= c.N THEN [err |-> "no qubit", pos |-> i]
    ELSE CheckOpenQubitOnly(c, T, key2, i + 1)

\* add_gate's loop over key2 that checks the requested locations: the error
\* raised at the first entry that fails a check and the position of that
\* entry, "" when all pass
RECURSIVE CheckOpen(_, _, _, _)
CheckOpen(c, T, key2, i) ==
    IF i > Len(key2) THEN [err |-> "", pos |-> 0]
    ELSE IF <<T, key2[i]>> \in c.TAs THEN [err |-> "occupied", pos |-> i]
    ELSE IF key2[i] >= c.N THEN [err |-> "no qubit", pos |-> i]
    ELSE CheckOpen(c, T, key2, i + 1)

\* the checks of add_gate, in the code's order
AddGateError(c, T, key2, gN) ==
    IF T < 0 THEN [err |-> "negative T", pos |-> 0]
    ELSE IF Len(key2) # gN THEN [err |-> "key entries", pos |-> 0]
    ELSE CheckOpen(c, T, key2, 1)

\* A faulty variant of AddTAs: only the first qubit of the key is entered
AddTAsFirstOnly(c, T, key2) == c.TAs \cup {<<T, key2[1]>>}

\* the memoization update of add_gate
AddTAs(c, T, key2) == c.TAs \cup {<<T, key2[i]>> : i \in 1..Len(key2)}

\* A faulty variant of AddTs: the new time is appended and Ts is not sorted
AddTsUnsorted(c, T) == IF T \notin Range(c.Ts) THEN Append(c.Ts, T) ELSE c.Ts

AddTs(c, T) == IF T \notin Range(c.Ts) THEN SortedInts(Append(c.Ts, T)) ELSE c.Ts

\* A faulty variant of add_gate: each qubit is entered in TAs as soon as it
\* has passed its check, so a failure at the second qubit leaves the first behind
add_gate_partial(c, T, key, g, gN) ==
    LET key2 == Key2(key)
        e == AddGateError(c, T, key2, gN)
    IN IF e.err # ""
       THEN [err |-> e.err, pos |-> e.pos,
             circuit |-> IF e.pos = 2 THEN [c EXCEPT !.TAs = @ \cup {<<T, key2[1]>>}] ELSE c]
       ELSE [err |-> "", pos |-> 0,
             circuit |-> [N |-> c.N,
                          gates |-> SetItem(c.gates, T, key2, g),
                          Ts |-> AddTs(c, T),
                          TAs |-> AddTAs(c, T, key2)]]

\* Circuit.add_gate(T, key, gate), gate being the reference g of an object of
\* arity gN: the error raised ("" for none) and the circuit afterwards
add_gate(c, T, key, g, gN) ==
    LET key2 == Key2(key)
        e == AddGateError(c, T, key2, gN)
    IN IF e.err # "" THEN [err |-> e.err, pos |-> e.pos, circuit |-> c]
       ELSE [err |-> "", pos |-> 0,
             circuit |-> [N |-> c.N,
                          gates |-> SetItem(c.gates, T, key2, g),
                          Ts |-> AddTs(c, T),
                          TAs |-> AddTAs(c, T, key2)]]

\* A faulty variant of gate: the key is looked up as given, so an int, which
\* is no key of the gates map, misses
gate_as_given(c, T, key) ==
    IF ~key.isint /\ HasKey(c, T, key.tuple) THEN GateOf(c, T, key.tuple) ELSE 0

\* Circuit.gate(T, key): the reference returned, 0 for the KeyError of a miss
gate(c, T, key) ==
    LET key2 == Key2(key)
    IN IF HasKey(c, T, key2) THEN GateOf(c, T, key2) ELSE 0

(***************************************************************************)
(* Circuit: the flat parameter view.                                       *)
(***************************************************************************)
\* A faulty variant of SortKeyLess: the sort key is the time alone
SortKeyLessByTime(x, y) == x.T < y.T

\* the sort key of param_keys, lambda x : (x[0], x[1]), compared as Python
\* compares tuples
SortKeyLess(x, y) == x.T < y.T \/ (x.T = y.T /\ TupleLess(x.key, y.key))

\* list.sort is stable: x goes after the elements whose sort key is <= its own
RECURSIVE InsertByKey(_, _)
InsertByKey(s, x) ==
    IF Len(s) = 0 THEN <<x>>
    ELSE IF SortKeyLess(x, Head(s)) THEN <<x>> \o s
    ELSE <<Head(s)>> \o InsertByKey(Tail(s), x)

RECURSIVE SortByKey(_)
SortByKey(s) ==
    IF Len(s) = 0 THEN <<>>
    ELSE InsertByKey(SortByKey(SubSeq(s, 1, Len(s) - 1)), s[Len(s)])

\* the loop of param_keys over gates.items() and gate.params.items()
RECURSIVE CollectParamKeys(_, _, _)
CollectParamKeys(h, gs, i) ==
    IF i > Len(gs) THEN <<>>
    ELSE LET names == ParamNames(h[gs[i].gate])
         IN [k \in 1..Len(names) |-> [T |-> gs[i].T, key |-> gs[i].key, name |-> names[k]]]
            \o CollectParamKeys(h, gs, i + 1)

\* Circuit.param_keys
param_keys(h, c) == SortByKey(CollectParamKeys(h, c.gates, 1))

\* Circuit.nparam
nparam(h, c) == Len(param_keys(h, c))

\* Circuit.param_values
param_values(h, c) ==
    LET pk == param_keys(h, c)
    IN [i \in 1..Len(pk) |-> ParamOf(h[GateOf(c, pk[i].T, pk[i].key)], pk[i].name)]

\* the loop of set_param_values over zip(self.param_keys, values), from its
\* i-th pair on: the error raised and the heap afterwards
RECURSIVE SetValuesFrom(_, _, _, _, _)
SetValuesFrom(h, c, pk, values, i) ==
    IF i > Len(pk) \/ i > Len(values) THEN [err |-> "", heap |-> h]
    ELSE LET g == GateOf(c, pk[i].T, pk[i].key)
             r == set_param(h[g], pk[i].name, values[i])
         IN IF r.err # "" THEN [err |-> r.err, heap |-> h]
            ELSE SetValuesFrom([h EXCEPT ![g] = r.gate], c, pk, values, i + 1)

\* Circuit.set_param_values(values)
set_param_values(h, c, values) == SetValuesFrom(h, c, param_keys(h, c), values, 1)

(***************************************************************************)
(* Circuit: the transforms.                                                *)
(***************************************************************************)
\* A faulty variant of ReversedFrom: the new time is nmoment - T
RECURSIVE ReversedFromOffByOne(_, _, _, _)
ReversedFromOffByOne(h, c, acc, i) ==
    IF i > Len(c.gates) THEN [err |-> "", circuit |-> acc]
    ELSE LET e == c.gates[i]
             r == add_gate(acc, nmoment(c) - e.T, TupleKey(e.key), e.gate, h[e.gate].N)
         IN IF r.err # "" THEN [err |-> r.err, circuit |-> acc]
            ELSE ReversedFromOffByOne(h, c, r.circuit, i + 1)

\* the loop of reversed over self.gates.items(), from its i-th entry on,
\* adding to the new circuit acc
RECURSIVE ReversedFrom(_, _, _, _)
ReversedFrom(h, c, acc, i) ==
    IF i > Len(c.gates) THEN [err |-> "", circuit |-> acc]
    ELSE LET e == c.gates[i]
             r == add_gate(acc, nmoment(c) - e.T - 1, TupleKey(e.key), e.gate, h[e.gate].N)
         IN IF r.err # "" THEN [err |-> r.err, circuit |-> acc]
            ELSE ReversedFrom(h, c, r.circuit, i + 1)

\* Circuit.reversed(): the gate objects are those of self
reversed(h, c) == ReversedFrom(h, c, Circuit(c.N), 1)

\* the loop of copy over self.gates.items(), from its i-th entry on: every
\* gate is copied into a new object
RECURSIVE CopyFrom(_, _, _, _)
CopyFrom(h, c, acc, i) ==
    IF i > Len(c.gates) THEN [err |-> "", heap |-> h, circuit |-> acc]
    ELSE LET e == c.gates[i]
             r == add_gate(acc, e.T, TupleKey(e.key), Len(h) + 1, h[e.gate].N)
         IN IF r.err # "" THEN [err |-> r.err, heap |-> h, circuit |-> acc]
            ELSE CopyFrom(Append(h, GateCopy(h[e.gate])), c, r.circuit, i + 1)

\* A faulty variant of copy: the new circuit holds the gate objects of self
copy_shared(h, c) == [err |-> "", heap |-> h, circuit |-> c]

\* Circuit.copy()
copy(h, c) == CopyFrom(h, c, Circuit(c.N), 1)

\* [T2 for T2, Tref in enumerate(Ts) if Tref == T][0]
FirstIndex(Ts, T) == (CHOOSE j \in 1..Len(Ts) : Ts[j] = T /\ \A l \in 1..j - 1 : Ts[l] # T) - 1

\* the loop of subset over self.gates.items(), from its i-th entry on
RECURSIVE SubsetFrom(_, _, _, _, _, _)
SubsetFrom(h, c, Ts, cp, acc, i) ==
    IF i > Len(c.gates) THEN [err |-> "", heap |-> h, circuit |-> acc]
    ELSE LET e == c.gates[i]
         IN IF e.T \notin Range(Ts) THEN SubsetFrom(h, c, Ts, cp, acc, i + 1)
            ELSE LET g == IF cp THEN Len(h) + 1 ELSE e.gate
                     r == add_gate(acc, FirstIndex(Ts, e.T), TupleKey(e.key), g, h[e.gate].N)
                 IN IF r.err # "" THEN [err |-> r.err, heap |-> h, circuit |-> acc]
                    ELSE SubsetFrom(IF cp THEN Append(h, GateCopy(h[e.gate])) ELSE h,
                                    c, Ts, cp, r.circuit, i + 1)

\* Circuit.subset(Ts, copy)
subset(h, c, Ts, cp) ==
    IF \E j \in 1..Len(Ts) : Ts[j] >= nmoment(c)
    THEN [err |-> "T >= self.nmoment", heap |-> h, circuit |-> Circuit(c.N)]
    ELSE SubsetFrom(h, c, Ts, cp, Circuit(c.N), 1)

\* A faulty variant of ConcatenateFrom: a circuit moves the next one by the
\* number of its occupied moments
RECURSIVE ConcatenateFromOccupied(_, _, _, _, _, _, _)
ConcatenateFromOccupied(h, cs, cp, acc, Tstart, k, i) ==
    IF k > Len(cs) THEN [err |-> "", heap |-> h, circuit |-> acc]
    ELSE IF i > Len(cs[k].gates)
    THEN ConcatenateFromOccupied(h, cs, cp, acc, Tstart + Len(cs[k].Ts), k + 1, 1)
    ELSE LET e == cs[k].gates[i]
             g == IF cp THEN Len(h) + 1 ELSE e.gate
             r == add_gate(acc, e.T + Tstart, TupleKey(e.key), g, h[e.gate].N)
         IN IF r.err # "" THEN [err |-> r.err, heap |-> h, circuit |-> acc]
            ELSE ConcatenateFromOccupied(IF cp THEN Append(h, GateCopy(h[e.gate])) ELSE h,
                                         cs, cp, r.circuit, Tstart, k, i + 1)

\* the loops of concatenate over circuits and over circuit2.gates.items(),
\* from the i-th entry of the k-th circuit on, Tstart being the sum of the
\* nmoment of the circuits before it
RECURSIVE ConcatenateFrom(_, _, _, _, _, _, _)
ConcatenateFrom(h, cs, cp, acc, Tstart, k, i) ==
    IF k > Len(cs) THEN [err |-> "", heap |-> h, circuit |-> acc]
    ELSE IF i > Len(cs[k].gates)
    THEN ConcatenateFrom(h, cs, cp, acc, Tstart + nmoment(cs[k]), k + 1, 1)
    ELSE LET e == cs[k].gates[i]
             g == IF cp THEN Len(h) + 1 ELSE e.gate
             r == add_gate(acc, e.T + Tstart, TupleKey(e.key), g, h[e.gate].N)
         IN IF r.err # "" THEN [err |-> r.err, heap |-> h, circuit |-> acc]
            ELSE ConcatenateFrom(IF cp THEN Append(h, GateCopy(h[e.gate])) ELSE h,
                                 cs, cp, r.circuit, Tstart, k, i + 1)

\* Circuit.concatenate(circuits, copy): any() of an empty list is False, and
\* circuits[0] then raises IndexError
concatenate(h, cs, cp) ==
    IF \E k \in 1..Len(cs) : cs[k].N # cs[1].N
    THEN [err |-> "same N", heap |-> h, circuit |-> NoCircuit]
    ELSE IF Len(cs) = 0 THEN [err |-> "IndexError", heap |-> h, circuit |-> NoCircuit]
    ELSE ConcatenateFrom(h, cs, cp, Circuit(cs[1].N), 0, 1, 1)

\* A faulty variant of Amap: the qubit index is kept
AmapIdentity(keys, x) == x

\* Amap = { v : k for k, v in enumerate(keys) }: a later entry of keys
\* replaces an earlier equal one
Amap(keys, x) ==
    (CHOOSE j \in 1..Len(keys) : keys[j] = x /\ \A l \in j + 1..Len(keys) : keys[l] # x) - 1

\* the loop of deadjoin over self.gates.items(), from its i-th entry on
RECURSIVE DeadjoinFrom(_, _, _, _, _, _)
DeadjoinFrom(h, c, keys, cp, acc, i) ==
    IF i > Len(c.gates) THEN [err |-> "", heap |-> h, circuit |-> acc]
    ELSE LET e == c.gates[i]
         IN IF \E m \in 1..Len(e.key) : e.key[m] \notin Range(keys)
            THEN DeadjoinFrom(h, c, keys, cp, acc, i + 1)
            ELSE LET g == IF cp THEN Len(h) + 1 ELSE e.gate
                     key2 == [m \in 1..Len(e.key) |-> Amap(keys, e.key[m])]
                     r == add_gate(acc, e.T, TupleKey(key2), g, h[e.gate].N)
                 IN IF r.err # "" THEN [err |-> r.err, heap |-> h, circuit |-> acc]
                    ELSE DeadjoinFrom(IF cp THEN Append(h, GateCopy(h[e.gate])) ELSE h,
                                      c, keys, cp, r.circuit, i + 1)

\* Circuit.deadjoin(keys, copy); Circuit(N=len(keys)) raises for an empty list
deadjoin(h, c, keys, cp) ==
    IF \E j \in 1..Len(keys) : keys[j] >= c.N
    THEN [err |-> "A >= self.A", heap |-> h, circuit |-> NoCircuit]
    ELSE IF Len(keys) <= 0 THEN [err |-> "N <= 0", heap |-> h, circuit |-> NoCircuit]
    ELSE DeadjoinFrom(h, c, keys, cp, Circuit(Len(keys)), 1)

\* A faulty variant of Tmap: the occupied times are numbered from 1
TmapFromOne(c, T) == CHOOSE j \in 1..Len(c.Ts) : SortedInts(c.Ts)[j] = T

\* Tmap = { v : k for k, v in enumerate(sorted(self.Ts)) }
Tmap(c, T) == (CHOOSE j \in 1..Len(c.Ts) : SortedInts(c.Ts)[j] = T) - 1

\* the loop of nonredundant over self.gates.items(), from its i-th entry on
RECURSIVE NonredundantFrom(_, _, _, _)
NonredundantFrom(h, c, acc, i) ==
    IF i > Len(c.gates) THEN [err |-> "", circuit |-> acc]
    ELSE LET e == c.gates[i]
             r == add_gate(acc, Tmap(c, e.T), TupleKey(e.key), e.gate, h[e.gate].N)
         IN IF r.err # "" THEN [err |-> r.err, circuit |-> acc]
            ELSE NonredundantFrom(h, c, r.circuit, i + 1)

\* A faulty variant of nonredundant: the times are left as they are
nonredundant_sparse(h, c) == [err |-> "", circuit |-> c]

\* Circuit.nonredundant(): the gate objects are those of self
nonredundant(h, c) == NonredundantFrom(h, c, Circuit(c.N), 1)

(***************************************************************************)
(* Circuit.compressed.                                                     *)
(***************************************************************************)
\* None, for an array variable
None == [k |-> 0, d |-> <<>>]

\* the loop that fills plan from the gates of a circuit, from its i-th entry
\* on: plan[A][T] is 1 under a 1-body gate, 2 and -2 under the first and the
\* second qubit of a 2-body gate
RECURSIVE PlanFrom(_, _, _, _)
PlanFrom(h, gs, plan, i) ==
    IF i > Len(gs) THEN [err |-> "", plan |-> plan]
    ELSE LET e == gs[i]
         IN IF h[e.gate].N = 1
            THEN PlanFrom(h, gs, [plan EXCEPT ![e.key[1]][e.T] = 1], i + 1)
            ELSE IF h[e.gate].N = 2
            THEN PlanFrom(h, gs,
                          [[plan EXCEPT ![e.key[1]][e.T] = 2] EXCEPT ![e.key[2]][e.T] = -2],
                          i + 1)
            ELSE [err |-> "N > 2", plan |-> plan]

\* plan = [[0 for x in range(nm)] for y in range(N)], then filled
Plan(h, c, nm) ==
    PlanFrom(h, c.gates, [A \in 0..c.N - 1 |-> [T \in 0..nm - 1 |-> 0]], 1)

\* first pass, the loop over one row of plan from moment T on: the run of
\* 1-body gates that started at Tstar has the product U so far
RECURSIVE ChainRow(_, _, _, _, _, _, _, _, _)
ChainRow(h, c1, c2, plan, nm, A, T, Tstar, U) ==
    IF T >= nm THEN [err |-> "", heap |-> h, circuit |-> c2]
    ELSE LET V == plan[A][T]
             Tstar1 == IF V = 1 /\ U = None THEN T ELSE Tstar
             U1 == IF V = 1 /\ U = None THEN GateU(h[GateOf(c1, T, <<A>>)])
                   ELSE IF V = 1 THEN Dot(2, GateU(h[GateOf(c1, T, <<A>>)]), U)
                   ELSE U
         IN IF U1 # None /\ (V = 2 \/ V = -2 \/ T = nm - 1)
            THEN LET r == add_gate(c2, Tstar1, TupleKey(<<A>>), Len(h) + 1, 1)
                 IN IF r.err # "" THEN [err |-> r.err, heap |-> h, circuit |-> c2]
                    ELSE ChainRow(Append(h, GateU1(U1)), c1, r.circuit, plan, nm,
                                  A, T + 1, -1, None)
            ELSE ChainRow(h, c1, c2, plan, nm, A, T + 1, Tstar1, U1)

\* first pass, the loop over the rows of plan from qubit A on
RECURSIVE ChainRows(_, _, _, _, _, _)
ChainRows(h, c1, c2, plan, nm, A) ==
    IF A >= c1.N THEN [err |-> "", heap |-> h, circuit |-> c2]
    ELSE LET r == ChainRow(h, c1, c2, plan, nm, A, 0, -1, None)
         IN IF r.err # "" THEN r
            ELSE ChainRows(r.heap, c1, r.circuit, plan, nm, A + 1)

\* the loops that carry gates over from circuit1 to circuit2 unchanged: the
\* gates of arity gN whose key is not in jammed, from the i-th entry on
RECURSIVE CarryOver(_, _, _, _, _, _)
CarryOver(h, c1, c2, gN, jammed, i) ==
    IF i > Len(c1.gates) THEN [err |-> "", heap |-> h, circuit |-> c2]
    ELSE LET e == c1.gates[i]
         IN IF h[e.gate].N # gN \/ <<e.T, e.key>> \in jammed
            THEN CarryOver(h, c1, c2, gN, jammed, i + 1)
            ELSE LET r == add_gate(c2, e.T, TupleKey(e.key), e.gate, h[e.gate].N)
                 IN IF r.err # "" THEN [err |-> r.err, heap |-> h, circuit |-> c2]
                    ELSE CarryOver(h, c1, r.circuit, gN, jammed, i + 1)

\* A faulty variant of LeftScan: the scan does not stop at a 2-body gate
RECURSIVE LeftScanThrough(_, _)
LeftScanThrough(row, T2) ==
    IF T2 < 0 THEN -1
    ELSE IF row[T2] = 1 THEN T2
    ELSE LeftScanThrough(row, T2 - 1)

\* second pass, the scan to the left of moment T along a row of plan: the
\* moment of the 1-body gate it finds, -1 when it meets a 2-body gate or the
\* start of the circuit first
RECURSIVE LeftScan(_, _)
LeftScan(row, T2) ==
    IF T2 < 0 THEN -1
    ELSE IF row[T2] = 2 \/ row[T2] = -2 THEN -1
    ELSE IF row[T2] = 1 THEN T2
    ELSE LeftScan(row, T2 - 1)

\* second pass, the test to the right of moment T along a row of plan: the
\* moment of the first 1-body gate when no 2-body gate follows, -1 otherwise
RightScan(row, T, nm) ==
    IF T + 1 < nm /\ Max({Abs(row[T2]) : T2 \in T + 1..nm - 1}) = 1
    THEN CHOOSE T2 \in T + 1..nm - 1 :
            row[T2] = 1 /\ \A T3 \in T + 1..T2 - 1 : row[T3] # 1
    ELSE -1

\* second pass, the matrix of the 2-body gate at (T, (A, B)) with the 1-body
\* gates next to it multiplied in
AbsorbedU(h, c1, plan, nm, T, A, B, U) ==
    LET lA == LeftScan(plan[A], T - 1)
        lB == LeftScan(plan[B], T - 1)
        rA == RightScan(plan[A], T, nm)
        rB == RightScan(plan[B], T, nm)
        UlA == IF lA >= 0 THEN Dot(4, U, Kron(GateU(h[GateOf(c1, lA, <<A>>)]), Eye2)) ELSE U
        UlB == IF lB >= 0 THEN Dot(4, UlA, Kron(Eye2, GateU(h[GateOf(c1, lB, <<B>>)]))) ELSE UlA
        UrA == IF rA >= 0 THEN Dot(4, Kron(GateU(h[GateOf(c1, rA, <<A>>)]), Eye2), UlB) ELSE UlB
        UrB == IF rB >= 0 THEN Dot(4, Kron(Eye2, GateU(h[GateOf(c1, rB, <<B>>)])), UrA) ELSE UrA
    IN UrB

\* second pass, the keys it enters in jammed_gates for the gate at (T, (A, B))
AbsorbedKeys(plan, nm, T, A, B) ==
    {<<LeftScan(plan[A], T - 1), <<A>> >>, <<RightScan(plan[A], T, nm), <<A>> >>,
     <<LeftScan(plan[B], T - 1), <<B>> >>, <<RightScan(plan[B], T, nm), <<B>> >>}
        \ {<<-1, <<A>> >>, <<-1, <<B>> >>}

\* second pass, the loop over the 2-body gates of circuit1 from its i-th entry on
RECURSIVE Absorb(_, _, _, _, _, _, _)
Absorb(h, c1, c2, plan, nm, jammed, i) ==
    IF i > Len(c1.gates) THEN [err |-> "", heap |-> h, circuit |-> c2, jammed |-> jammed]
    ELSE LET e == c1.gates[i]
         IN IF h[e.gate].N # 2 THEN Absorb(h, c1, c2, plan, nm, jammed, i + 1)
            ELSE LET U == AbsorbedU(h, c1, plan, nm, e.T, e.key[1], e.key[2], GateU(h[e.gate]))
                     r == add_gate(c2, e.T, TupleKey(e.key), Len(h) + 1, 2)
                 IN IF r.err # ""
                    THEN [err |-> r.err, heap |-> h, circuit |-> c2, jammed |-> jammed]
                    ELSE Absorb(Append(h, GateU2(U)), c1, r.circuit, plan, nm,
                                jammed \cup AbsorbedKeys(plan, nm, e.T, e.key[1], e.key[2]),
                                i + 1)

\* A faulty variant of Jams: a gate on A or B with another partner does not
\* end the run
RECURSIVE JamsThrough(_, _, _, _, _)
JamsThrough(c1, nm, A, B, T2) ==
    IF T2 >= nm THEN <<>>
    ELSE IF HasKey(c1, T2, <<A, B>>)
    THEN << [T |-> T2, key |-> <<A, B>>, gate |-> GateOf(c1, T2, <<A, B>>), trans |-> FALSE] >>
            \o JamsThrough(c1, nm, A, B, T2 + 1)
    ELSE IF HasKey(c1, T2, <<B, A>>)
    THEN << [T |-> T2, key |-> <<B, A>>, gate |-> GateOf(c1, T2, <<B, A>>), trans |-> TRUE] >>
            \o JamsThrough(c1, nm, A, B, T2 + 1)
    ELSE JamsThrough(c1, nm, A, B, T2 + 1)

\* third pass, the loop that collects in jams the later 2-body gates on the
\* qubits A and B, from moment T2 on: the key, the gate and whether the key
\* is (B, A)
RECURSIVE Jams(_, _, _, _, _)
Jams(c1, nm, A, B, T2) ==
    IF T2 >= nm THEN <<>>
    ELSE IF HasKey(c1, T2, <<A, B>>)
    THEN << [T |-> T2, key |-> <<A, B>>, gate |-> GateOf(c1, T2, <<A, B>>), trans |-> FALSE] >>
            \o Jams(c1, nm, A, B, T2 + 1)
    ELSE IF HasKey(c1, T2, <<B, A>>)
    THEN << [T |-> T2, key |-> <<B, A>>, gate |-> GateOf(c1, T2, <<B, A>>), trans |-> TRUE] >>
            \o Jams(c1, nm, A, B, T2 + 1)
    ELSE IF <<T2, A>> \in c1.TAs THEN <<>>
    ELSE IF <<T2, B>> \in c1.TAs THEN <<>>
    ELSE Jams(c1, nm, A, B, T2 + 1)

\* A faulty variant of JamProduct: the legs of a gate given as (B, A) are not swapped
RECURSIVE JamProductAsGiven(_, _, _, _)
JamProductAsGiven(h, jams, U, idx) ==
    IF idx > Len(jams) THEN U
    ELSE JamProductAsGiven(h, jams, Dot(4, GateU(h[jams[idx].gate]), U), idx + 1)

\* third pass, the product of the matrices of jams from its idx-th entry on
RECURSIVE JamProduct(_, _, _, _)
JamProduct(h, jams, U, idx) ==
    IF idx > Len(jams) THEN U
    ELSE LET U2 == IF jams[idx].trans THEN SwapLegs(GateU(h[jams[idx].gate]))
                   ELSE GateU(h[jams[idx].gate])
         IN JamProduct(h, jams, Dot(4, U2, U), idx + 1)

\* third pass, the loop over the gates of circuit3 = circuit1.subset([T]),
\* from its i-th entry on
RECURSIVE FuseMoment(_, _, _, _, _, _, _, _)
FuseMoment(h, c1, c2, c3, nm, T, jammed, i) ==
    IF i > Len(c3.gates) THEN [err |-> "", heap |-> h, circuit |-> c2, jammed |-> jammed]
    ELSE LET e == c3.gates[i]
         IN IF h[e.gate].N # 2 \/ <<T, e.key>> \in jammed
            THEN FuseMoment(h, c1, c2, c3, nm, T, jammed, i + 1)
            ELSE LET A == e.key[1]
                     B == e.key[2]
                     jams == << [T |-> T, key |-> e.key, gate |-> e.gate, trans |-> FALSE] >>
                                \o Jams(c1, nm, A, B, T + 1)
                     U == JamProduct(h, jams, GateU(h[jams[1].gate]), 2)
                     r == add_gate(c2, T, TupleKey(<<A, B>>), Len(h) + 1, 2)
                 IN IF r.err # ""
                    THEN [err |-> r.err, heap |-> h, circuit |-> c2, jammed |-> jammed]
                    ELSE FuseMoment(Append(h, GateU2(U)), c1, r.circuit, c3, nm, T,
                                    jammed \cup {<<jams[j].T, jams[j].key>> : j \in 1..Len(jams)},
                                    i + 1)

\* third pass, the loop over the moments of circuit1 from moment T on
RECURSIVE Fuse(_, _, _, _, _, _)
Fuse(h, c1, c2, nm, jammed, T) ==
    IF T >= nmoment(c1) THEN [err |-> "", heap |-> h, circuit |-> c2, jammed |-> jammed]
    ELSE LET s == subset(h, c1, <<T>>, TRUE)
         IN IF s.err # ""
            THEN [err |-> s.err, heap |-> h, circuit |-> c2, jammed |-> jammed]
            ELSE LET r == FuseMoment(s.heap, c1, c2, s.circuit, nm, T, jammed, 1)
                 IN IF r.err # "" THEN r
                    ELSE Fuse(r.heap, c1, r.circuit, nm, r.jammed, T + 1)

\* first pass of compressed: runs of 1-body gates become one gate each
JamOneBody(h, c) ==
    LET nm == nmoment(c)
        cp == copy(h, c)
        pl == Plan(cp.heap, cp.circuit, nm)
        rows == ChainRows(cp.heap, cp.circuit, Circuit(c.N), pl.plan, nm, 0)
    IN IF cp.err # "" THEN cp
       ELSE IF pl.err # "" THEN [err |-> pl.err, heap |-> cp.heap, circuit |-> cp.circuit]
       ELSE IF rows.err # "" THEN rows
       ELSE CarryOver(rows.heap, cp.circuit, rows.circuit, 2, {}, 1)

\* second pass of compressed: 1-body gates go into the 2-body gates next to them
JamIntoTwoBody(h, c1, nm) ==
    LET pl == Plan(h, c1, nm)
        ab == Absorb(h, c1, Circuit(c1.N), pl.plan, nm, {}, 1)
    IN IF pl.err # "" THEN [err |-> pl.err, heap |-> h, circuit |-> c1]
       ELSE IF ab.err # "" THEN [err |-> ab.err, heap |-> ab.heap, circuit |-> ab.circuit]
       ELSE CarryOver(ab.heap, c1, ab.circuit, 1, ab.jammed, 1)

\* third pass of compressed: 2-body gates on the same two qubits become one gate
JamTwoBody(h, c1, nm) ==
    LET fu == Fuse(h, c1, Circuit(c1.N), nm, {}, 0)
    IN IF fu.err # "" THEN [err |-> fu.err, heap |-> fu.heap, circuit |-> fu.circuit]
       ELSE CarryOver(fu.heap, c1, fu.circuit, 1, fu.jammed, 1)

\* compressed after its third pass p3: return circuit2.nonredundant()
Compressed4(p3, nr) ==
    IF nr.err # "" THEN [err |-> nr.err, heap |-> p3.heap, circuit |-> NoCircuit]
    ELSE [err |-> "", heap |-> p3.heap, circuit |-> nr.circuit]

\* compressed after its second pass p2, which the third pass left as p3
Compressed3(p3) ==
    IF p3.err # "" THEN [err |-> p3.err, heap |-> p3.heap, circuit |-> NoCircuit]
    ELSE Compressed4(p3, nonredundant(p3.heap, p3.circuit))

\* compressed after its first pass, which the second pass left as p2
Compressed2(p2, nm) ==
    IF p2.err # "" THEN [err |-> p2.err, heap |-> p2.heap, circuit |-> NoCircuit]
    ELSE Compressed3(JamTwoBody(p2.heap, p2.circuit, nm))

\* compressed after its first pass p1
Compressed1(p1, nm) ==
    IF p1.err # "" THEN [err |-> p1.err, heap |-> p1.heap, circuit |-> NoCircuit]
    ELSE Compressed2(JamIntoTwoBody(p1.heap, p1.circuit, nm), nm)

\* A faulty variant of compressed: the gates of self are kept as they are,
\* only the empty moments are dropped
compressed_as_is(h, c) ==
    [err |-> "", heap |-> h, circuit |-> nonredundant(h, c).circuit]

\* Circuit.compressed(): the error raised, the heap with the objects it
\* created and the circuit returned
compressed(h, c) == Compressed1(JamOneBody(h, c), nmoment(c))

(***************************************************************************)
(* Simulation.  A state vector is an array of 2^N entries.                 *)
(***************************************************************************)
\* (n & -n).bit_length() - 1 of a power of two n
RECURSIVE Log2(_)
Log2(n) == IF n <= 1 THEN 0 ELSE 1 + Log2(n \div 2)

\* A faulty variant of apply_gate_1: L and R are exchanged, which makes qubit
\* 0 the least significant bit
apply_gate_1_reversed(wfn1, wfn2, U, A) ==
    LET N == Log2(Len(wfn1.d))
        L == 2 ^ (N - A - 1)
        R == 2 ^ A
    IN IF A >= N THEN [err |-> "A >= N", wfn |-> wfn2]
       ELSE [err |-> "",
             wfn |-> Array(wfn1.k + U.k,
                           [x \in 1..Len(wfn1.d) |->
                              LET l == (x - 1) \div (2 * R)
                                  i == ((x - 1) \div R) % 2
                                  r == (x - 1) % R
                              IN Sum([j \in 0..1 |->
                                        U.d[2 * i + j + 1] * wfn1.d[l * 2 * R + j * R + r + 1]],
                                     0, 1)])]

\* A faulty variant of apply_gate_1: the contraction stops after its first term
apply_gate_1_truncated(wfn1, wfn2, U, A) ==
    LET N == Log2(Len(wfn1.d))
        L == 2 ^ A
        R == 2 ^ (N - A - 1)
    IN IF A >= N THEN [err |-> "A >= N", wfn |-> wfn2]
       ELSE [err |-> "",
             wfn |-> Array(wfn1.k + U.k,
                           [x \in 1..Len(wfn1.d) |->
                              LET l == (x - 1) \div (2 * R)
                                  i == ((x - 1) \div R) % 2
                                  r == (x - 1) % R
                              IN Sum([j \in 0..1 |->
                                        U.d[2 * i + j + 1] * wfn1.d[l * 2 * R + j * R + r + 1]],
                                     0, 0)])]

\* Circuit.apply_gate_1(wfn1, wfn2, U, A): the error raised and wfn2 afterwards
apply_gate_1(wfn1, wfn2, U, A) ==
    LET N == Log2(Len(wfn1.d))
        L == 2 ^ A
        R == 2 ^ (N - A - 1)
    IN IF A >= N THEN [err |-> "A >= N", wfn |-> wfn2]
       ELSE [err |-> "",
             wfn |-> Array(wfn1.k + U.k,
                           [x \in 1..Len(wfn1.d) |->
                              LET l == (x - 1) \div (2 * R)
                                  i == ((x - 1) \div R) % 2
                                  r == (x - 1) % R
                              IN Sum([j \in 0..1 |->
                                        U.d[2 * i + j + 1] * wfn1.d[l * 2 * R + j * R + r + 1]],
                                     0, 1)])]

\* A faulty variant of apply_gate_2: the legs of U are not swapped when A > B
apply_gate_2_unswapped(wfn1, wfn2, U, A, B) ==
    LET N == Log2(Len(wfn1.d))
        A2 == IF A > B THEN B ELSE A
        B2 == IF A > B THEN A ELSE B
        U2 == U
        L == 2 ^ A2
        M == 2 ^ (B2 - A2 - 1)
        R == 2 ^ (N - B2 - 1)
    IN IF A >= N THEN [err |-> "A >= N", wfn |-> wfn2]
       ELSE IF B >= N THEN [err |-> "B >= N", wfn |-> wfn2]
       ELSE IF A = B THEN [err |-> "A == B", wfn |-> wfn2]
       ELSE [err |-> "",
             wfn |-> Array(wfn1.k + U2.k,
                           [x \in 1..Len(wfn1.d) |->
                              LET l == (x - 1) \div (4 * M * R)
                                  i == ((x - 1) \div (2 * M * R)) % 2
                                  m == ((x - 1) \div (2 * R)) % M
                                  j == ((x - 1) \div R) % 2
                                  r == (x - 1) % R
                              IN Sum([kl \in 0..3 |->
                                        U2.d[8 * i + 4 * j + kl + 1]
                                          * wfn1.d[(((l * 2 + (kl \div 2)) * M + m) * 2
                                                      + (kl % 2)) * R + r + 1]],
                                     0, 3)])]

\* Circuit.apply_gate_2(wfn1, wfn2, U, A, B): the error raised and wfn2 afterwards
apply_gate_2(wfn1, wfn2, U, A, B) ==
    LET N == Log2(Len(wfn1.d))
        A2 == IF A > B THEN B ELSE A
        B2 == IF A > B THEN A ELSE B
        U2 == IF A > B THEN SwapLegs(U) ELSE U
        L == 2 ^ A2
        M == 2 ^ (B2 - A2 - 1)
        R == 2 ^ (N - B2 - 1)
    IN IF A >= N THEN [err |-> "A >= N", wfn |-> wfn2]
       ELSE IF B >= N THEN [err |-> "B >= N", wfn |-> wfn2]
       ELSE IF A = B THEN [err |-> "A == B", wfn |-> wfn2]
       ELSE [err |-> "",
             wfn |-> Array(wfn1.k + U2.k,
                           [x \in 1..Len(wfn1.d) |->
                              LET l == (x - 1) \div (4 * M * R)
                                  i == ((x - 1) \div (2 * M * R)) % 2
                                  m == ((x - 1) \div (2 * R)) % M
                                  j == ((x - 1) \div R) % 2
                                  r == (x - 1) % R
                              IN Sum([kl \in 0..3 |->
                                        U2.d[8 * i + 4 * j + kl + 1]
                                          * wfn1.d[(((l * 2 + (kl \div 2)) * M + m) * 2
                                                      + (kl % 2)) * R + r + 1]],
                                     0, 3)])]

\* simulate_steps, the loop over the gates of one moment from the i-th on:
\* each gate is applied from wfn1 into wfn2, and Swapped goes on from what
\* the application r left: wfn1, wfn2 = wfn2, wfn1
RECURSIVE ApplyMoment(_, _, _, _, _)
RECURSIVE Swapped(_, _, _, _, _, _)
ApplyMoment(h, gs, wfn1, wfn2, i) ==
    IF i > Len(gs) THEN [err |-> "", wfn1 |-> wfn1, wfn2 |-> wfn2]
    ELSE IF h[gs[i].gate].N = 1
    THEN Swapped(h, gs, wfn1, wfn2, i,
                 apply_gate_1(wfn1, wfn2, GateU(h[gs[i].gate]), gs[i].key[1]))
    ELSE IF h[gs[i].gate].N = 2
    THEN Swapped(h, gs, wfn1, wfn2, i,
                 apply_gate_2(wfn1, wfn2, GateU(h[gs[i].gate]), gs[i].key[1], gs[i].key[2]))
    ELSE [err |-> "N > 2", wfn1 |-> wfn1, wfn2 |-> wfn2]

Swapped(h, gs, wfn1, wfn2, i, r) ==
    IF r.err # "" THEN [err |-> r.err, wfn1 |-> wfn1, wfn2 |-> wfn2]
    ELSE ApplyMoment(h, gs, r.wfn, wfn1, i + 1)

\* simulate_steps, the loop over the moments from moment T on; last is the
\* array of the latest yield, and an error leaves the caller without an
\* array.  Moment goes on with s = self.subset([T]), Yielded with what the
\* gates of the moment left.
RECURSIVE Steps(_, _, _, _, _, _)
RECURSIVE Moment(_, _, _, _, _, _)
RECURSIVE Yielded(_, _, _, _)
Steps(h, c, wfn1, wfn2, last, T) ==
    IF T >= nmoment(c) THEN [err |-> "", wfn |-> last]
    ELSE Moment(h, c, wfn1, wfn2, T, subset(h, c, <<T>>, TRUE))

Moment(h, c, wfn1, wfn2, T, s) ==
    IF s.err # "" THEN [err |-> s.err, wfn |-> None]
    ELSE Yielded(h, c, T, ApplyMoment(s.heap, s.circuit.gates, wfn1, wfn2, 1))

Yielded(h, c, T, r) ==
    IF r.err # "" THEN [err |-> r.err, wfn |-> None]
    ELSE Steps(h, c, r.wfn1, r.wfn2, r.wfn1, T + 1)

\* the reference state: wfn = np.zeros((2**N,)); wfn[0] = 1.0
Reference(N) == Array(0, [x \in 1..2 ^ N |-> IF x = 1 THEN 1 ELSE 0])

\* np.zeros_like(wfn1)
ZerosLike(wfn) == Array(0, [x \in 1..Len(wfn.d) |-> 0])

\* Circuit.simulate(wfn): the error raised and the array returned, which is
\* the argument itself when the generator yields nothing
simulate(h, c, wfn) ==
    LET wfn1 == IF wfn = None THEN Reference(c.N) ELSE wfn
    IN Steps(h, c, wfn1, ZerosLike(wfn1), wfn, 0)

\* the entries of the arrays are real numbers: x.conj() is x, x.real is x
\* and x.imag is 0
Conj(wfn) == wfn

Real(x) == x

Imag(x) == 0

\* A faulty variant of compute_1pdm: the qubits are counted from the other
\* end of the index
compute_1pdm_from_right(wfn1, wfn2, A) ==
    LET N == Log2(Len(wfn1.d))
        L == 2 ^ (N - A - 1)
        R == 2 ^ A
    IN IF A >= N THEN [err |-> "A >= N", D |-> None]
       ELSE IF Len(wfn2.d) # 2 ^ N THEN [err |-> "wfn2 shape", D |-> None]
       ELSE [err |-> "",
             D |-> Array(wfn1.k + wfn2.k,
                         [x \in 1..4 |->
                            Sum([y \in 0..L * R - 1 |->
                                   Conj(wfn1).d[(y \div R) * 2 * R + ((x - 1) \div 2) * R + (y % R) + 1]
                                     * wfn2.d[(y \div R) * 2 * R + ((x - 1) % 2) * R + (y % R) + 1]],
                                0, L * R - 1)])]

\* Circuit.compute_1pdm(wfn1, wfn2, A): the error raised and the (2,2) array
\* D[i, j] = sum over L, R of conj(wfn1[L, i, R]) * wfn2[L, j, R], the
\* arrays being viewed in the shape (2^A, 2, 2^(N-A-1))
compute_1pdm(wfn1, wfn2, A) ==
    LET N == Log2(Len(wfn1.d))
        L == 2 ^ A
        R == 2 ^ (N - A - 1)
    IN IF A >= N THEN [err |-> "A >= N", D |-> None]
       ELSE IF Len(wfn2.d) # 2 ^ N THEN [err |-> "wfn2 shape", D |-> None]
       ELSE [err |-> "",
             D |-> Array(wfn1.k + wfn2.k,
                         [x \in 1..4 |->
                            Sum([y \in 0..L * R - 1 |->
                                   Conj(wfn1).d[(y \div R) * 2 * R + ((x - 1) \div 2) * R + (y % R) + 1]
                                     * wfn2.d[(y \div R) * 2 * R + ((x - 1) % 2) * R + (y % R) + 1]],
                                0, L * R - 1)])]

\* the array [I, X, Y, Z] that compute_pauli_1 packs from the 1pdm r
PauliFrom(r) ==
    IF r.err # "" THEN [err |-> r.err, ret |-> None]
    ELSE [err |-> "",
          ret |-> Array(r.D.k, <<Real(r.D.d[1] + r.D.d[4]),
                                 Real(r.D.d[3] + r.D.d[2]),
                                 Imag(r.D.d[3] - r.D.d[2]),
                                 Real(r.D.d[1] - r.D.d[4])>>)]

\* Circuit.compute_pauli_1(wfn, A): the error raised and the array returned
compute_pauli_1(wfn, A) == PauliFrom(compute_1pdm(wfn, wfn, A))

(***************************************************************************)
(* simulate_steps as a generator over arrays in memory.  mem is the        *)
(* sequence of the arrays there are, an array variable holds the index of  *)
(* one (0 for None).  The frame of a generator: state is "created" before  *)
(* the first next(), "suspended" at a yield, "finished" after the loop and *)
(* "raised" after an error; caller is the array handed in, wfn, wfn1 and   *)
(* wfn2 are the local variables, T the moment of the loop, nm the bound of *)
(* range(self.nmoment), yielded the array of the latest yield, returned    *)
(* the array that simulate returns.                                        *)
(***************************************************************************)
\* self.simulate_steps(wfn): nothing of the body has run
NewGenerator(wfn) ==
    [state |-> "created", err |-> "",
     mem |-> IF wfn = None THEN <<>> ELSE <<wfn>>,
     caller |-> IF wfn = None THEN 0 ELSE 1,
     wfn |-> IF wfn = None THEN 0 ELSE 1,
     wfn1 |-> 0, wfn2 |-> 0, T |-> 0, nm |-> 0, yielded |-> 0, returned |-> 0]

\* A faulty variant of Prologue: the first working buffer is the array
\* handed in
PrologueInPlace(f, N) ==
    LET m1 == Append(f.mem, IF f.wfn = 0 THEN Reference(N) ELSE f.mem[f.wfn])
        m2 == Append(m1, ZerosLike(m1[Len(m1)]))
    IN [f EXCEPT !.mem = m2,
                 !.wfn = IF f.wfn = 0 THEN Len(m1) ELSE f.wfn,
                 !.wfn1 = IF f.wfn = 0 THEN Len(m1) ELSE f.wfn,
                 !.wfn2 = Len(m2)]

\* the statements before the loop: wfn = np.zeros(...) with wfn[0] = 1.0, or
\* wfn = np.array(wfn, dtype=dtype), a new array; wfn1 = np.copy(wfn);
\* wfn2 = np.zeros_like(wfn1)
Prologue(f, N) ==
    LET m1 == Append(f.mem, IF f.wfn = 0 THEN Reference(N) ELSE f.mem[f.wfn])
        m2 == Append(m1, m1[Len(m1)])
        m3 == Append(m2, ZerosLike(m2[Len(m2)]))
    IN [f EXCEPT !.mem = m3, !.wfn = Len(m1), !.wfn1 = Len(m2), !.wfn2 = Len(m3)]

\* A faulty variant of MomentInMemory: a gate of more than two qubits is
\* passed over
RECURSIVE MomentInMemorySkipping(_, _, _, _, _, _)
MomentInMemorySkipping(h, gs, mem, a1, a2, i) ==
    IF i > Len(gs) THEN [err |-> "", mem |-> mem, wfn1 |-> a1, wfn2 |-> a2]
    ELSE IF h[gs[i].gate].N > 2 THEN MomentInMemorySkipping(h, gs, mem, a1, a2, i + 1)
    ELSE LET r == IF h[gs[i].gate].N = 1
                  THEN apply_gate_1(mem[a1], mem[a2], GateU(h[gs[i].gate]), gs[i].key[1])
                  ELSE apply_gate_2(mem[a1], mem[a2], GateU(h[gs[i].gate]),
                                    gs[i].key[1], gs[i].key[2])
         IN IF r.err # "" THEN [err |-> r.err, mem |-> mem, wfn1 |-> a1, wfn2 |-> a2]
            ELSE MomentInMemorySkipping(h, gs, [mem EXCEPT ![a2] = r.wfn], a2, a1, i + 1)

\* the loop over the gates of one moment from the i-th on, on the arrays
\* a1 (wfn1) and a2 (wfn2) of mem: the gate writes the array wfn2, and
\* Exchanged goes on from what the application r left
RECURSIVE MomentInMemory(_, _, _, _, _, _)
RECURSIVE Exchanged(_, _, _, _, _, _, _)
MomentInMemory(h, gs, mem, a1, a2, i) ==
    IF i > Len(gs) THEN [err |-> "", mem |-> mem, wfn1 |-> a1, wfn2 |-> a2]
    ELSE IF h[gs[i].gate].N = 1
    THEN Exchanged(h, gs, mem, a1, a2, i,
                   apply_gate_1(mem[a1], mem[a2], GateU(h[gs[i].gate]), gs[i].key[1]))
    ELSE IF h[gs[i].gate].N = 2
    THEN Exchanged(h, gs, mem, a1, a2, i,
                   apply_gate_2(mem[a1], mem[a2], GateU(h[gs[i].gate]),
                                gs[i].key[1], gs[i].key[2]))
    ELSE [err |-> "N > 2", mem |-> mem, wfn1 |-> a1, wfn2 |-> a2]

Exchanged(h, gs, mem, a1, a2, i, r) ==
    IF r.err # "" THEN [err |-> r.err, mem |-> mem, wfn1 |-> a1, wfn2 |-> a2]
    ELSE MomentInMemory(h, gs, [mem EXCEPT ![a2] = r.wfn], a2, a1, i + 1)

\* the frame after the gates of moment f.T have left r: an error ends the
\* generator, otherwise it is suspended at yield T, wfn1
AtYield(f, r) ==
    [f EXCEPT !.state = IF r.err # "" THEN "raised" ELSE "suspended",
              !.err = r.err,
              !.mem = r.mem,
              !.wfn1 = r.wfn1,
              !.wfn2 = r.wfn2,
              !.yielded = IF r.err # "" THEN @ ELSE r.wfn1]

\* one turn of the loop for T in range(self.nmoment), s being self.subset([T])
InMoment(f, s) ==
    IF s.err # "" THEN [f EXCEPT !.state = "raised", !.err = s.err]
    ELSE AtYield(f, MomentInMemory(s.heap, s.circuit.gates, f.mem, f.wfn1, f.wfn2, 1))

\* A faulty variant of Loop: a moment that holds no gate is passed over
\* without a yield
RECURSIVE LoopOverGates(_, _, _)
LoopOverGates(h, c, f) ==
    IF f.T >= f.nm THEN [f EXCEPT !.state = "finished"]
    ELSE IF \A i \in 1..Len(c.gates) : c.gates[i].T # f.T
    THEN LoopOverGates(h, c, [f EXCEPT !.T = @ + 1])
    ELSE InMoment(f, subset(h, c, <<f.T>>, TRUE))

\* the loop of simulate_steps from its moment f.T on, up to the next yield
Loop(h, c, f) ==
    IF f.T >= f.nm THEN [f EXCEPT !.state = "finished"]
    ELSE InMoment(f, subset(h, c, <<f.T>>, TRUE))

\* next() of the generator: from the start to the first yield, or from one
\* yield to the next, or to the end
Resume(h, c, f) ==
    IF f.state = "created" THEN Loop(h, c, [Prologue(f, c.N) EXCEPT !.nm = nmoment(c)])
    ELSE IF f.state = "suspended" THEN Loop(h, c, [f EXCEPT !.T = @ + 1])
    ELSE f

\* for T, wfn in self.simulate_steps(wfn): pass -- the variable wfn of
\* simulate is bound to each array yielded
RECURSIVE Drive(_, _, _, _)
Drive(h, c, f, wfn) ==
    IF f.state \in {"finished", "raised"} THEN [frame |-> f, wfn |-> wfn]
    ELSE IF f.state = "suspended" THEN Drive(h, c, Resume(h, c, f), f.yielded)
    ELSE Drive(h, c, Resume(h, c, f), wfn)

(***************************************************************************)
(* The inputs offered to the API.                                          *)
(***************************************************************************)
Times == -1..MaxTime

\* a qubit index, a 1-tuple or a 2-tuple of qubit indices, N itself included
KeysFor(N) ==
    {IntKey(a) : a \in 0..N}
        \cup {TupleKey(<<a>>) : a \in 0..N}
        \cup {TupleKey(<<a, b>>) : a \in 0..N, b \in 0..N}

\* the keys that name qubits of the circuit, as tuples
TupleKeysFor(N) ==
    {TupleKey(<<a>>) : a \in 0..N - 1}
        \cup {TupleKey(<<a, b>>) : a \in 0..N - 1, b \in 0..N - 1}

\* the keys that name one qubit or two different qubits of the circuit
DistinctKeysFor(N) ==
    {TupleKey(<<a>>) : a \in 0..N - 1}
        \cup {TupleKey(<<a, b>>) : <<a, b>> \in {p \in (0..N - 1) \X (0..N - 1) : p[1] # p[2]}}

\* the basis states of N qubits
Basis(N) == {Array(0, [x \in 1..2 ^ N |-> IF x = b + 1 THEN 1 ELSE 0]) : b \in 0..2 ^ N - 1}

\* the Gate objects the caller has constructed
Allocated == Len(Library) + 1 .. Len(heap)

\* the value vectors handed to set_param_values for a circuit of n parameters:
\* n or n - 1 values, pairwise different
ValueVectors(n) ==
    {[i \in 1..m |-> b + i] : b \in 0..MaxValue, m \in {n - 1, n} \cap Nat}

(***************************************************************************)
(* Actions.                                                                *)
(***************************************************************************)
\* name: the method called; err: the error it raised, "" for none; pos: for
\* add_gate, the entry of key2 at which its check loop raised; arg: the
\* arguments of a call that went through; ret: the value returned
Call(name, err, pos, arg, ret) ==
    [name |-> name, err |-> err, pos |-> pos, arg |-> arg, ret |-> ret]

NoCall == Call("", "", 0, <<>>, 0)

Init ==
    /\ heap = Library
    /\ \E N \in 1..MaxQubits : circuit = Circuit(N)
    /\ call = NoCall
    /\ result = NoCircuit

\* the heap once the caller lets go of the derived circuit: the objects that
\* only it referred to are gone
Held(h, c) ==
    SubSeq(h, 1, Max({Len(Library)} \cup {c.gates[i].gate : i \in 1..Len(c.gates)}))

\* the heap h0 followed by the objects of h that the derived circuit c refers
\* to, and c with its references to them: what a transform leaves behind
\* once its temporaries are gone
Collect(h0, h, c) ==
    LET above == {c.gates[i].gate : i \in 1..Len(c.gates)} \ (1..Len(h0))
        rank(g) == Cardinality({x \in above : x <= g})
    IN [heap |-> h0 \o [k \in 1..Cardinality(above) |->
                           h[CHOOSE g \in above : rank(g) = k]],
        circuit |-> [c EXCEPT !.gates =
                       [i \in 1..Len(c.gates) |->
                          [c.gates[i] EXCEPT !.gate =
                             IF @ <= Len(h0) THEN @ ELSE Len(h0) + rank(@)]]]]

\* circuit.add_gate(T, key, g) with a Gate object the caller already holds
AddHeld(T, key, g) ==
    LET r == add_gate(circuit, T, key, g, heap[g].N)
    IN /\ Len(circuit.gates) < MaxGates
       /\ circuit' = r.circuit
       /\ call' = Call("add_gate", r.err, r.pos,
                       IF r.err = "" THEN [T |-> T, key |-> key, gate |-> g] ELSE <<>>, 0)
       /\ result' = NoCircuit
       /\ heap' = Held(heap, circuit)

\* circuit.add_gate(T, key, G) with a Gate object G constructed for the call;
\* the object stays in the heap only when the circuit has taken it
AddNew(T, key, G) ==
    LET h == Held(heap, circuit)
        g == Len(h) + 1
        r == add_gate(circuit, T, key, g, G.N)
    IN /\ Len(circuit.gates) < MaxGates
       /\ circuit' = r.circuit
       /\ heap' = IF r.err = "" THEN Append(h, G) ELSE h
       /\ call' = Call("add_gate", r.err, r.pos,
                       IF r.err = "" THEN [T |-> T, key |-> key, gate |-> g] ELSE <<>>, 0)
       /\ result' = NoCircuit

\* circuit.gate(T, key)
GateLookup(T, key) ==
    LET g == gate(circuit, T, key)
    IN /\ call' = Call("gate", IF g = 0 THEN "KeyError" ELSE "", 0, <<>>, g)
       /\ UNCHANGED <<heap, circuit, result>>

\* circuit.param_keys
ParamKeysCall ==
    /\ call' = Call("param_keys", "", 0, <<>>, param_keys(heap, circuit))
    /\ UNCHANGED <<heap, circuit, result>>

\* circuit.param_values
ParamValuesCall ==
    /\ call' = Call("param_values", "", 0, <<>>, param_values(heap, circuit))
    /\ UNCHANGED <<heap, circuit, result>>

\* circuit.set_param_values(values)
SetParamValuesCall(values) ==
    LET r == set_param_values(heap, circuit, values)
    IN /\ heap' = r.heap
       /\ call' = Call("set_param_values", r.err, 0, values, 0)
       /\ UNCHANGED <<circuit, result>>

\* heap[g].set_param(name, value) on a gate object of the program
SetParamCall(g, name, value) ==
    \E r \in {set_param(heap[g], name, value)} :
       /\ heap' = [heap EXCEPT ![g] = r.gate]
       /\ call' = Call("Gate.set_param", r.err, g, [name |-> name, value |-> value], 0)
       /\ UNCHANGED <<circuit, result>>

\* A faulty variant of ReversedCall: the gates of the result are copies
ReversedCallCopying ==
    \E r \in {reversed(heap, circuit)} :
       \E k \in {copy(heap, r.circuit)} :
          /\ result' = k.circuit
          /\ heap' = k.heap
          /\ call' = Call("reversed", r.err, 0, <<>>, 0)
          /\ UNCHANGED circuit

\* result = circuit.reversed()
ReversedCall ==
    LET r == reversed(heap, circuit)
    IN /\ result' = r.circuit
       /\ call' = Call("reversed", r.err, 0, <<>>, 0)
       /\ UNCHANGED <<heap, circuit>>

\* result = result.reversed(), result being circuit.reversed()
ReversedAgain ==
    LET r == reversed(heap, result)
    IN /\ call.name = "reversed"
       /\ call.err = ""
       /\ result' = r.circuit
       /\ call' = Call("reversed.reversed", r.err, 0, <<>>, 0)
       /\ UNCHANGED <<heap, circuit>>

\* result = circuit.compressed()
CompressedCall ==
    \E r \in {compressed(Held(heap, circuit), circuit)} :
       \E kept \in {Collect(Held(heap, circuit), r.heap, r.circuit)} :
          /\ heap' = kept.heap
          /\ result' = kept.circuit
          /\ call' = Call("compressed", r.err, 0, <<>>, 0)
          /\ UNCHANGED circuit

\* circuit.simulate(wfn)
SimulateCall(wfn) ==
    LET r == simulate(heap, circuit, wfn)
    IN /\ call' = Call("simulate", r.err, 0, wfn, r.wfn)
       /\ UNCHANGED <<heap, circuit, result>>

\* result = circuit.copy()
CopyCall ==
    \E r \in {copy(heap, circuit)} :
       /\ result' = r.circuit
       /\ heap' = r.heap
       /\ call' = Call("copy", r.err, 0, <<>>, 0)
       /\ UNCHANGED circuit

\* result = circuit.nonredundant()
NonredundantCall ==
    \E r \in {nonredundant(heap, circuit)} :
       /\ result' = r.circuit
       /\ call' = Call("nonredundant", r.err, 0, <<>>, 0)
       /\ UNCHANGED <<heap, circuit>>

\* result = circuit.subset(Ts, copy)
SubsetCall(Ts, cp) ==
    \E r \in {subset(Held(heap, circuit), circuit, Ts, cp)} :
       \E kept \in {Collect(Held(heap, circuit), r.heap, r.circuit)} :
          /\ heap' = kept.heap
          /\ result' = IF r.err = "" THEN kept.circuit ELSE NoCircuit
          /\ call' = Call("subset", r.err, 0, [Ts |-> Ts, copy |-> cp], 0)
          /\ UNCHANGED circuit

\* result = circuit.deadjoin(keys, copy)
DeadjoinCall(keys, cp) ==
    \E r \in {deadjoin(Held(heap, circuit), circuit, keys, cp)} :
       \E kept \in {Collect(Held(heap, circuit), r.heap, r.circuit)} :
          /\ heap' = kept.heap
          /\ result' = kept.circuit
          /\ call' = Call("deadjoin", r.err, 0, [keys |-> keys, copy |-> cp], 0)
          /\ UNCHANGED circuit

\* result = Circuit.concatenate(circuits, copy), the list being made of the
\* source circuit and of the derived circuit held so far, by name
ConcatenateCall(names, cp) ==
    \E cs \in {[k \in 1..Len(names) |-> IF names[k] = "circuit" THEN circuit ELSE result]} :
       \E r \in {concatenate(heap, cs, cp)} :
          \E kept \in {Collect(Held(heap, circuit), r.heap, r.circuit)} :
             /\ heap' = kept.heap
             /\ result' = kept.circuit
             /\ call' = Call("concatenate", r.err, 0,
                             [N |-> [k \in 1..Len(cs) |-> cs[k].N],
                              keys |-> [k \in 1..Len(cs) |-> Keys(cs[k])],
                              nmoment |-> [k \in 1..Len(cs) |-> nmoment(cs[k])],
                              copy |-> cp], 0)
             /\ UNCHANGED circuit

\* gen = circuit.simulate_steps(wfn)
StepsCall(wfn) ==
    /\ call' = Call("simulate_steps", "", 0, wfn, NewGenerator(wfn))
    /\ UNCHANGED <<heap, circuit, result>>

\* next(gen), gen being created or suspended at a yield
StepsNext ==
    /\ call.name = "simulate_steps"
    /\ call.ret.state \in {"created", "suspended"}
    /\ \E f \in {Resume(heap, circuit, call.ret)} :
          call' = Call("simulate_steps", f.err, 0, call.arg, f)
    /\ UNCHANGED <<heap, circuit, result>>

\* circuit.simulate(wfn), with the arrays it works on: the generator is
\* driven to its end and the array last bound to wfn is returned
SimulateInMemory(wfn) ==
    \E r \in {Drive(heap, circuit, NewGenerator(wfn), IF wfn = None THEN 0 ELSE 1)} :
       /\ call' = Call("simulate in memory", r.frame.err, 0, wfn,
                       [r.frame EXCEPT !.returned = r.wfn])
       /\ UNCHANGED <<heap, circuit, result>>

\* Circuit.compute_pauli_1(wfn, A)
ComputePauli1Call(wfn, A) ==
    \E r \in {compute_pauli_1(wfn, A)} :
       /\ call' = Call("compute_pauli_1", r.err, 0, [wfn |-> wfn, A |-> A], r.ret)
       /\ UNCHANGED <<heap, circuit, result>>

\* Circuit.apply_gate_1(wfn1, wfn2, U, A) on a state of circuit.N qubits,
\* wfn2 being a buffer of zeros; depth counts the applications that led
\* to wfn1
ApplyGate1Call(wfn1, U, A, depth) ==
    \E r \in {apply_gate_1(wfn1, ZerosLike(wfn1), U, A)} :
       /\ call' = Call("apply_gate_1", r.err, depth,
                       [wfn1 |-> wfn1, U |-> U, A |-> A, B |-> A], r.wfn)
       /\ UNCHANGED <<heap, circuit, result>>

\* Circuit.apply_gate_2(wfn1, wfn2, U, A, B)
ApplyGate2Call(wfn1, U, A, B, depth) ==
    \E r \in {apply_gate_2(wfn1, ZerosLike(wfn1), U, A, B)} :
       /\ call' = Call("apply_gate_2", r.err, depth,
                       [wfn1 |-> wfn1, U |-> U, A |-> A, B |-> B], r.wfn)
       /\ UNCHANGED <<heap, circuit, result>>

\* the transform that made the circuit held in result, "" when none is held
Origin ==
    IF call.name = "derived.set_param_values" THEN call.arg.of
    ELSE IF result # NoCircuit THEN call.name
    ELSE ""

\* set_param_values(values) on the source circuit (on = "circuit") or on the
\* circuit derived from it (on = "result"), both being held
SetValuesOn(on, values) ==
    \E r \in {set_param_values(heap, IF on = "result" THEN result ELSE circuit, values)} :
       /\ Origin # ""
       /\ heap' = r.heap
       /\ call' = Call("derived.set_param_values", r.err, 0,
                       [of |-> Origin, on |-> on, values |-> values], 0)
       /\ UNCHANGED <<circuit, result>>

\* Construction and lookup: add_gate with every kind of argument, and gate
Next ==
    \/ \E T \in Times, key \in KeysFor(circuit.N), g \in {RefX, RefCNOT} :
          AddHeld(T, key, g)
    \/ \E T \in Times, key \in KeysFor(circuit.N) : AddNew(T, key, GateRy(0))
    \/ \E T \in 0..MaxTime, key \in KeysFor(circuit.N) : GateLookup(T, key)

Spec == Init /\ [][Next]_vars

\* The parameter view: circuits of parametrized gates, some of them placed
\* twice, read and written through param_keys, param_values and
\* set_param_values
NextParam ==
    \/ \E T \in 0..MaxTime, key \in TupleKeysFor(circuit.N), g \in Allocated :
          Len(circuit.gates) < MaxParamGates /\ AddHeld(T, key, g)
    \/ \E T \in 0..MaxTime, key \in TupleKeysFor(circuit.N) :
          Len(circuit.gates) < MaxParamGates /\ AddNew(T, key, GateRy(0))
    \/ \E T \in 0..MaxTime, key \in TupleKeysFor(circuit.N) :
          Len(circuit.gates) < MaxParamGates /\ AddNew(T, key, GateSO42(0, 0, 0, 0, 0, 0))
    \/ ParamKeysCall
    \/ ParamValuesCall
    \/ \E values \in ValueVectors(nparam(heap, circuit)) : SetParamValuesCall(values)

SpecParam == Init /\ [][NextParam]_vars

\* The transforms: circuits of library and parametrized gates, and the
\* circuits derived from them
NextTransform ==
    \/ \E T \in 0..MaxTime, key \in TupleKeysFor(circuit.N), g \in {RefX, RefCNOT} :
          AddHeld(T, key, g)
    \/ \E T \in 0..MaxTime, key \in TupleKeysFor(circuit.N) : AddNew(T, key, GateRy(0))
    \/ ReversedCall
    \/ ReversedAgain

SpecTransform == Init /\ [][NextTransform]_vars

\* Compression: circuits of the library gates X, H and CNOT on up to
\* SimQubits qubits, every gate on a free slot and every 2-body gate on two
\* different qubits, and the circuits compressed() makes of them.  On
\* SimQubits qubits the gates are added moment by moment, on fewer in any order.
InitSim ==
    /\ heap = Library
    /\ \E N \in 1..SimQubits : circuit = Circuit(N)
    /\ call = NoCall
    /\ result = NoCircuit

NextCompress ==
    \/ \E T \in 0..SimTime, key \in DistinctKeysFor(circuit.N), g \in {RefX, RefH, RefCNOT} :
          /\ Len(circuit.gates) < SimGates
          /\ circuit.N < SimQubits \/ T + 1 >= nmoment(circuit)
          /\ add_gate(circuit, T, key, g, heap[g].N).err = ""
          /\ AddHeld(T, key, g)
    \/ CompressedCall

SpecCompress == InitSim /\ [][NextCompress]_vars

\* Simulation: circuits of the library gates X, H and CNOT on up to
\* SimQubits qubits, simulated from the default state and from every basis state
NextSim ==
    \/ \E T \in 0..SimTime, key \in TupleKeysFor(circuit.N), g \in {RefX, RefH, RefCNOT} :
          Len(circuit.gates) < StepGates /\ AddHeld(T, key, g)
    \/ \E wfn \in Basis(circuit.N) \cup {None} : SimulateCall(wfn)

SpecSim == InitSim /\ [][NextSim]_vars

\* the value vectors that cover all n parameters of a circuit
FullVectors(n) == {[i \in 1..n |-> b + i] : b \in 0..MaxValue}

\* Parameter dependency: circuits of library gates and parametrized Ry
\* gates, one circuit derived from each by reversed, copy or nonredundant,
\* and parameters then set through the source and through the derived circuit
NextShare ==
    \/ \E T \in 0..MaxTime, key \in TupleKeysFor(circuit.N), g \in {RefX, RefCNOT} :
          Len(circuit.gates) < MaxParamGates /\ AddHeld(T, key, g)
    \/ \E T \in 0..MaxTime, key \in TupleKeysFor(circuit.N) :
          Len(circuit.gates) < MaxParamGates /\ AddNew(T, key, GateRy(0))
    \/ result = NoCircuit /\ ReversedCall
    \/ result = NoCircuit /\ CopyCall
    \/ result = NoCircuit /\ NonredundantCall
    \/ \E values \in FullVectors(nparam(heap, circuit)) : SetValuesOn("circuit", values)
    \/ \E values \in FullVectors(nparam(heap, result)) : SetValuesOn("result", values)

SpecShare == Init /\ [][NextShare]_vars

\* Frozen parameters: circuits of H, CNOT and parametrized Ry gates, every
\* gate on a free slot and every 2-body gate on two different qubits, the
\* circuits compressed() makes of them, and parameters set after that
NextFreeze ==
    \/ \E T \in 0..MaxTime, key \in DistinctKeysFor(circuit.N), g \in {RefH, RefCNOT} :
          /\ Len(circuit.gates) < MaxGates
          /\ add_gate(circuit, T, key, g, heap[g].N).err = ""
          /\ AddHeld(T, key, g)
    \/ \E T \in 0..MaxTime, key \in DistinctKeysFor(circuit.N) :
          /\ Len(circuit.gates) < MaxGates
          /\ add_gate(circuit, T, key, 0, 1).err = ""
          /\ AddNew(T, key, GateRy(0))
    \/ result = NoCircuit /\ CompressedCall
    \/ \E values \in FullVectors(nparam(heap, circuit)) : SetValuesOn("circuit", values)
    \/ \E values \in FullVectors(nparam(heap, result)) : SetValuesOn("result", values)

SpecFreeze == Init /\ [][NextFreeze]_vars

\* the lists of at most MaxList entries of S
Lists(S) == UNION {[1..n -> S] : n \in 0..MaxList}

\* Slicing and stacking: circuits of library and parametrized gates, one
\* circuit made of each by subset, deadjoin or nonredundant, and the
\* concatenations of a circuit and its qubit slice or its compaction
NextSlice ==
    \/ \E T \in 0..MaxTime, key \in TupleKeysFor(circuit.N), g \in {RefX, RefCNOT} :
          Len(circuit.gates) < MaxParamGates /\ AddHeld(T, key, g)
    \/ \E T \in 0..MaxTime, key \in TupleKeysFor(circuit.N) :
          Len(circuit.gates) < MaxParamGates /\ AddNew(T, key, GateRy(0))
    \/ \E Ts \in Lists(-1..MaxTime + 1), cp \in BOOLEAN :
          result = NoCircuit /\ SubsetCall(Ts, cp)
    \/ \E keys \in Lists(0..circuit.N), cp \in BOOLEAN :
          result = NoCircuit /\ DeadjoinCall(keys, cp)
    \/ result = NoCircuit /\ NonredundantCall
    \/ \E names \in Lists({"circuit", "result"}), cp \in BOOLEAN :
          /\ call.name \in {"deadjoin", "nonredundant"} /\ call.err = ""
          /\ ConcatenateCall(names, cp)

SpecSlice == Init /\ [][NextSlice]_vars

\* Simulation step by step: circuits of the library gates X, H and CNOT,
\* simulate_steps driven by next() from the default state and from every
\* basis state, and simulate over the same arrays
NextSteps ==
    \/ \E T \in 0..SimTime, key \in TupleKeysFor(circuit.N), g \in {RefX, RefH, RefCNOT} :
          Len(circuit.gates) < StepGates /\ AddHeld(T, key, g)
    \/ \E wfn \in Basis(circuit.N) \cup {None} : StepsCall(wfn)
    \/ StepsNext
    \/ \E wfn \in Basis(circuit.N) \cup {None} : SimulateInMemory(wfn)

SpecSteps == Init /\ [][NextSteps]_vars

\* the (2,2) and (4,4) unitary matrices handed to apply_gate_1 and
\* apply_gate_2
Unitaries1 == {MatrixX, MatrixH, MatrixRy(1)}

Unitaries2 ==
    {MatrixCX, MatrixSWAP, Kron(MatrixX, Eye2), Kron(MatrixH, MatrixX),
     Kron(MatrixRy(1), MatrixH), Dot(4, MatrixCX, Kron(MatrixH, Eye2))}

\* the states handed to apply_gate_1 and apply_gate_2, with the number of
\* applications that made them: a basis state at first, then the state
\* the last application wrote, unless MaxDepth applications led to it
StatesAtHand ==
    IF call.name \notin {"apply_gate_1", "apply_gate_2"}
    THEN {<<wfn, 0>> : wfn \in Basis(circuit.N)}
    ELSE IF call.err = "" /\ call.pos < MaxDepth THEN {<<call.ret, call.pos>>}
    ELSE {}

\* Gate application: apply_gate_1 and apply_gate_2 with every unitary of
\* Unitaries1 and Unitaries2 at every qubit and pair of qubits, the pairs
\* (A, A) included, on basis states and on the states written before
NextApply ==
    \/ \E s \in StatesAtHand, U \in Unitaries1, A \in 0..circuit.N - 1 :
          ApplyGate1Call(s[1], U, A, s[2] + 1)
    \/ \E s \in StatesAtHand, U \in Unitaries2, A \in 0..circuit.N - 1, B \in 0..circuit.N - 1 :
          ApplyGate2Call(s[1], U, A, B, s[2] + 1)

SpecApply == InitSim /\ [][NextApply]_vars

\* the keys that name three different qubits of the circuit
TripleKeysFor(N) ==
    {TupleKey(<<p[1], p[2], p[3]>>) :
        p \in {q \in (0..N - 1) \X (0..N - 1) \X (0..N - 1) :
                  q[1] # q[2] /\ q[1] # q[3] /\ q[2] # q[3]}}

\* Unsupported arity: circuits of X and CNOT gates and of 3-body gates, each
\* on a free slot and on different qubits, handed to compressed, to
\* simulate and to simulate_steps
NextArity ==
    \/ \E T \in 0..SimTime, key \in DistinctKeysFor(circuit.N), g \in {RefX, RefCNOT} :
          /\ Len(circuit.gates) < StepGates
          /\ add_gate(circuit, T, key, g, heap[g].N).err = ""
          /\ AddHeld(T, key, g)
    \/ \E T \in 0..SimTime, key \in TripleKeysFor(circuit.N) :
          /\ Len(circuit.gates) < StepGates
          /\ add_gate(circuit, T, key, 0, 3).err = ""
          /\ AddNew(T, key, Gate3)
    \/ result = NoCircuit /\ CompressedCall
    \/ SimulateCall(None)
    \/ StepsCall(None)
    \/ StepsNext

SpecArity == InitSim /\ [][NextArity]_vars

\* the parameter names a caller passes to set_param: names of Ry and of
\* SO42, and one that no gate has
NamesAtHand == {"theta", "thetaIY", "thetaYZ", "phi"}

\* Parameters of one gate: library gates and parametrized gates placed in
\* a circuit, and set_param on any of the gate objects
NextGate ==
    \/ \E T \in 0..MaxTime, key \in TupleKeysFor(circuit.N), g \in Allocated :
          Len(circuit.gates) < MaxParamGates /\ AddHeld(T, key, g)
    \/ \E T \in 0..MaxTime, key \in TupleKeysFor(circuit.N) :
          Len(circuit.gates) < MaxParamGates /\ AddNew(T, key, GateRy(0))
    \/ \E T \in 0..MaxTime, key \in TupleKeysFor(circuit.N) :
          Len(circuit.gates) < MaxParamGates /\ AddNew(T, key, GateSO42(0, 0, 0, 0, 0, 0))
    \/ \E g \in Allocated \cup {RefX}, name \in NamesAtHand, value \in 0..MaxValue :
          SetParamCall(g, name, value)

SpecGate == Init /\ [][NextGate]_vars

\* Order within a moment: circuits of the library gates X, H and CNOT on up
\* to SimQubits qubits, simulate_steps driven by next() from the default
\* state and from every basis state
NextOrder ==
    \/ \E T \in 0..SimTime, key \in TupleKeysFor(circuit.N), g \in {RefX, RefH, RefCNOT} :
          /\ Len(circuit.gates) < StepGates
          /\ add_gate(circuit, T, key, g, heap[g].N).err = ""
          /\ AddHeld(T, key, g)
    \/ \E wfn \in Basis(circuit.N) \cup {None} : StepsCall(wfn)
    \/ StepsNext

SpecOrder == InitSim /\ [][NextOrder]_vars

\* the states handed to compute_pauli_1: the state the last application
\* wrote, a basis state otherwise
StatesToMeasure ==
    IF call.name \in {"apply_gate_1", "apply_gate_2"} /\ call.err = "" THEN {call.ret}
    ELSE Basis(circuit.N)

\* Pauli expectation values: the states that up to MaxDepth applications
\* of unitaries make from a basis state, measured at every qubit and at
\* the index N that names none
NextPauli ==
    \/ \E s \in StatesAtHand, U \in Unitaries1, A \in 0..circuit.N - 1 :
          ApplyGate1Call(s[1], U, A, s[2] + 1)
    \/ \E s \in StatesAtHand, U \in {MatrixCX, Kron(MatrixH, MatrixX)} :
          \E A \in 0..circuit.N - 1 : \E B \in (0..circuit.N - 1) \ {A} :
             ApplyGate2Call(s[1], U, A, B, s[2] + 1)
    \/ \E wfn \in StatesToMeasure, A \in 0..circuit.N : ComputePauli1Call(wfn, A)

SpecPauli == InitSim /\ [][NextPauli]_vars

\* One generator driven to its end: a circuit of the library gates X, H and
\* CNOT is filled, simulate_steps is called once, from the default state or
\* from a basis state, and from then on the caller only calls next(), as
\* the for loop of simulate does
NextDrive ==
    \/ \E T \in 0..SimTime, key \in TupleKeysFor(circuit.N), g \in {RefX, RefH, RefCNOT} :
          /\ call.name # "simulate_steps"
          /\ Len(circuit.gates) < StepGates
          /\ AddHeld(T, key, g)
    \/ \E wfn \in Basis(circuit.N) \cup {None} :
          call.name # "simulate_steps" /\ StepsCall(wfn)
    \/ StepsNext

\* next() can be called: the generator is there and has not ended, which
\* is when a StepsNext step is enabled
Pullable == call.name = "simulate_steps" /\ call.ret.state \in {"created", "suspended"}

\* The caller keeps calling next() while the generator has not ended, as
\* the for loop of simulate does: weak fairness of StepsNext, with its
\* enabling condition written as the state predicate Pullable
PullsOn == []<>(~Pullable) \/ []<><<StepsNext>>_vars

SpecDrive == Init /\ [][NextDrive]_vars /\ PullsOn

(***************************************************************************)
(* Properties of construction and lookup (specification Spec).             *)
(***************************************************************************)
\* the arities of the gates a caller can hand to add_gate
Arities == {heap[g].N : g \in 1..Len(heap)}

\* add_gate(T, key, gate) has to be rejected: a negative time, a key whose
\* length is not the gate's arity, a qubit >= N, or a slot already occupied
MustReject(c, T, key2, gN) ==
    \/ T < 0
    \/ Len(key2) # gN
    \/ \E i \in 1..Len(key2) : key2[i] >= c.N
    \/ \E i \in 1..Len(key2) : <<T, key2[i]>> \in c.TAs

\* every add_gate that has to be rejected raises and returns the circuit as it was
RejectsWithoutEffect ==
    \A T \in Times, key \in KeysFor(circuit.N), gN \in Arities :
        LET r == add_gate(circuit, T, key, 1, gN)
        IN MustReject(circuit, T, Key2(key), gN) => r.err # "" /\ r.circuit = circuit

\* a call of add_gate that raised has left gates, Ts and TAs as they were
FailedAddKeepsCircuit ==
    (call'.name = "add_gate" /\ call'.err # "") => circuit' = circuit

\* C1: add_gate on an occupied (T, qubit) slot, also one that overlaps in only
\* one of two qubits, or with T < 0, a key of the wrong length or a qubit >= N,
\* fails and leaves the gates map, Ts and TAs exactly as they were.
C1_AddGateFailsAtomically == []RejectsWithoutEffect /\ [][FailedAddKeepsCircuit]_vars

\* add_gate has raised at the second qubit of a 2-qubit key whose first qubit
\* was free: the key overlaps an existing gate in one qubit only
C1_Witness ==
    /\ call.name = "add_gate"
    /\ call.err = "occupied"
    /\ call.pos = 2
    /\ Len(circuit.gates) >= 1

\* C2: in every circuit reachable by add_gate calls, each key's tuple length is
\* its gate's arity, each qubit index is < N, each time is >= 0, and no two
\* distinct keys of one time share a qubit.
C2_WellFormed ==
    /\ \A i \in 1..Len(circuit.gates) :
          LET e == circuit.gates[i]
          IN /\ Len(e.key) = heap[e.gate].N
             /\ \A k \in 1..Len(e.key) : e.key[k] < circuit.N
             /\ e.T >= 0
    /\ \A i, j \in 1..Len(circuit.gates) :
          (i # j /\ circuit.gates[i].T = circuit.gates[j].T)
              => Range(circuit.gates[i].key) \cap Range(circuit.gates[j].key) = {}

\* two gates share a moment, one of them a 2-body gate, and a further
\* add_gate into that moment has been rejected
C2_Witness ==
    /\ call.name = "add_gate"
    /\ call.err = "occupied"
    /\ \E i, j \in 1..Len(circuit.gates) :
          /\ i # j
          /\ circuit.gates[i].T = circuit.gates[j].T
          /\ Len(circuit.gates[i].key) = 2

\* the other way of writing the key of a 1-body placement
OtherForm(key) ==
    IF key.isint THEN TupleKey(<<key.int>>) ELSE IntKey(key.tuple[1])

\* a successful add_gate(T, key, g) makes gate(T, key) return g itself, under
\* both ways of writing a 1-qubit key
AddedIsFound ==
    (call'.name = "add_gate" /\ call'.err = "") =>
        LET a == call'.arg
        IN /\ gate(circuit', a.T, a.key) = a.gate
           /\ Len(Key2(a.key)) = 1 => gate(circuit', a.T, OtherForm(a.key)) = a.gate
           /\ a.gate \in 1..Len(heap) => heap'[a.gate] = heap[a.gate]

\* what gate returns for a placement stays what it is
PlacedStays ==
    \A i \in 1..Len(circuit.gates) :
        LET e == circuit.gates[i]
        IN /\ gate(circuit', e.T, TupleKey(e.key)) = e.gate
           /\ Len(e.key) = 1 => gate(circuit', e.T, IntKey(e.key[1])) = e.gate

\* C3: after a successful add_gate(T, key, g), gate(T, key) returns the object
\* g itself in every later state; k and (k,) name the same placement.
C3_LookupReturnsPlacedGate == [][AddedIsFound /\ PlacedStays]_vars

\* gate has returned a Gate object that was constructed for one placement of
\* a circuit that holds other gates too
C3_Witness ==
    /\ call.name = "gate"
    /\ call.err = ""
    /\ call.ret > Len(Library)
    /\ Len(circuit.gates) >= 2

\* the times that occur in the keys of gates
TimesOf(c) == {c.gates[i].T : i \in 1..Len(c.gates)}

\* C4: Ts is strictly ascending and holds exactly the times of the keys of
\* gates, TAs holds exactly the (T, q) of every key (T, tuple) and q in tuple,
\* and nmoment is the largest occupied time + 1, or 0 without gates.
C4_IndexesConsistent ==
    /\ \A i \in 1..Len(circuit.Ts) - 1 : circuit.Ts[i] < circuit.Ts[i + 1]
    /\ Range(circuit.Ts) = TimesOf(circuit)
    /\ circuit.TAs =
          UNION {{<<circuit.gates[i].T, circuit.gates[i].key[k]>> :
                     k \in 1..Len(circuit.gates[i].key)} : i \in 1..Len(circuit.gates)}
    /\ nmoment(circuit) =
          IF circuit.gates = <<>> THEN 0 ELSE Max(TimesOf(circuit)) + 1

\* three moments are occupied and were not filled in ascending order
C4_Witness ==
    /\ Len(circuit.Ts) = 3
    /\ Len(circuit.gates) = 3
    /\ circuit.gates[1].T > circuit.gates[3].T
    /\ circuit.gates[3].T > circuit.gates[2].T

(***************************************************************************)
(* Properties of the parameter view (specification SpecParam).             *)
(***************************************************************************)
\* tuple a comes before tuple b: at the first position where they differ a
\* has the smaller entry, or a has ended
TupleBefore(a, b) ==
    \E k \in 1..Len(b) :
        /\ \A j \in 1..k - 1 : j <= Len(a) /\ a[j] = b[j]
        /\ k > Len(a) \/ (k <= Len(a) /\ a[k] < b[k])

\* (time, qubit-tuple) of x comes before that of y
PlacementBefore(x, y) == x.T < y.T \/ (x.T = y.T /\ TupleBefore(x.key, y.key))

\* the position of a parameter name in its gate's own parameter order
NameIndex(G, name) == CHOOSE k \in 1..Len(G.params) : G.params[k][1] = name

\* every (time, qubit-tuple, name) of the circuit
ParamTriples(h, c) ==
    UNION {{[T |-> c.gates[i].T, key |-> c.gates[i].key, name |-> ParamNames(h[c.gates[i].gate])[k]] :
               k \in 1..Len(h[c.gates[i].gate].params)} : i \in 1..Len(c.gates)}

\* the orders in which n placements can have been made
Orders(n) == {p \in [1..n -> 1..n] : \A i, j \in 1..n : i # j => p[i] # p[j]}

\* the circuit whose placements were made in the order p
Reordered(c, p) == [c EXCEPT !.gates = [i \in 1..Len(c.gates) |-> c.gates[p[i]]]]

\* C8: param_keys returns the (time, qubit-tuple, name) triples ascending by
\* (time, qubit-tuple), the names of one gate in that gate's own parameter
\* order, and the same list whatever the order of insertion.
C8_ParamKeysCanonical ==
    LET pk == param_keys(heap, circuit)
    IN /\ \A i, j \in 1..Len(pk) : i < j => ~PlacementBefore(pk[j], pk[i])
       /\ \A i, j \in 1..Len(pk) :
             (i < j /\ pk[i].T = pk[j].T /\ pk[i].key = pk[j].key) =>
                 LET G == heap[GateOf(circuit, pk[i].T, pk[i].key)]
                 IN NameIndex(G, pk[i].name) < NameIndex(G, pk[j].name)
       /\ Range(pk) = ParamTriples(heap, circuit)
       /\ Len(pk) = Cardinality(ParamTriples(heap, circuit))
       /\ \A p \in Orders(Len(circuit.gates)) : param_keys(heap, Reordered(circuit, p)) = pk
       /\ call.name = "param_keys" => call.ret = pk

\* param_keys was read on a circuit whose second placement sorts before its
\* first, both parametrized, one of them with several parameters
C8_Witness ==
    /\ call.name = "param_keys"
    /\ Len(circuit.gates) >= 2
    /\ PlacementBefore(circuit.gates[2], circuit.gates[1])
    /\ Len(heap[circuit.gates[1].gate].params) >= 1
    /\ Len(heap[circuit.gates[2].gate].params) >= 2

\* param_values[i] is the current value of the parameter named by param_keys[i]
ValuesFollowKeys ==
    LET pk == param_keys(heap, circuit)
        pv == param_values(heap, circuit)
    IN /\ Len(pv) = Len(pk)
       /\ \A i \in 1..Len(pk) :
             pv[i] = ParamOf(heap[gate(circuit, pk[i].T, TupleKey(pk[i].key))], pk[i].name)

\* set_param_values was handed as many values as the circuit has parameters
SetAllValues ==
    call.name = "set_param_values" /\ Len(call.arg) = nparam(heap, circuit)

\* set_param_values changes no placement, Ts or TAs
SetValuesKeepsCircuit == call'.name = "set_param_values" => circuit' = circuit

\* C9 as claimed: param_values is positional against param_keys, and after
\* set_param_values(v) with len(v) = nparam, param_values equals v and the
\* placements, Ts and TAs are unchanged.
C9_Original ==
    /\ [](ValuesFollowKeys /\ (SetAllValues => param_values(heap, circuit) = call.arg))
    /\ [][SetValuesKeepsCircuit]_vars

\* no Gate object that has parameters is placed at two keys of the circuit
NoSharedParams(h, c) ==
    \A i, j \in 1..Len(c.gates) :
        (i # j /\ c.gates[i].gate = c.gates[j].gate) => h[c.gates[i].gate].params = <<>>

\* C9 as amended: param_values is positional against param_keys; after
\* set_param_values(v) with len(v) = nparam, the placements, Ts and TAs are
\* unchanged, and param_values equals v provided that no Gate object with
\* parameters is placed at two keys of the circuit.
C9_FlatViewPositional ==
    /\ [](/\ ValuesFollowKeys
          /\ (SetAllValues /\ NoSharedParams(heap, circuit))
                => param_values(heap, circuit) = call.arg)
    /\ [][SetValuesKeepsCircuit]_vars

\* all the values of a circuit with a several-parameter gate and another
\* parametrized gate, each placed once, have been set
C9_Witness ==
    /\ SetAllValues
    /\ NoSharedParams(heap, circuit)
    /\ Len(circuit.gates) >= 2
    /\ \E i, j \in 1..Len(circuit.gates) :
          /\ Len(heap[circuit.gates[i].gate].params) >= 2
          /\ i # j
          /\ Len(heap[circuit.gates[j].gate].params) >= 1

(***************************************************************************)
(* Properties of the transforms (specification SpecTransform).             *)
(***************************************************************************)
\* the circuit has no empty leading moment
StartsAtZero(c) == c.Ts = <<>> \/ c.Ts[1] = 0

\* C10: reversed() applied twice to a circuit whose smallest occupied time is
\* 0 returns a circuit in which every placement has its original
\* (time, qubit-tuple) key.
C10_ReversedTwice ==
    (call.name = "reversed.reversed" /\ StartsAtZero(circuit)) =>
        /\ call.err = ""
        /\ Len(result.gates) = Len(circuit.gates)
        /\ \A i \in 1..Len(circuit.gates) :
              /\ result.gates[i].T = circuit.gates[i].T
              /\ result.gates[i].key = circuit.gates[i].key
              /\ result.gates[i].gate = circuit.gates[i].gate

\* a circuit that starts at time 0, has an empty moment in the middle and
\* gates of both arities has been reversed twice
C10_Witness ==
    /\ call.name = "reversed.reversed"
    /\ circuit.Ts = <<0, 2>>
    /\ \E i, j \in 1..Len(circuit.gates) :
          Len(circuit.gates[i].key) = 1 /\ Len(circuit.gates[j].key) = 2

(***************************************************************************)
(* Properties of compressed (specification SpecCompress).                  *)
(***************************************************************************)
\* C5: when compressed() has returned, simulating the circuit it returned
\* ends as simulating the original circuit ends, in the same error or in the
\* same state vector, from every basis state (and so, the simulation being
\* linear, from every state) and from the default state
C5_CompressedSimulatesAlike ==
    (call.name = "compressed" /\ call.err = "") =>
        \A wfn \in Basis(circuit.N) \cup {None} :
            simulate(heap, result, wfn) = simulate(heap, circuit, wfn)

\* a circuit of three gates on three moments, 1-body and 2-body, has been
\* compressed into fewer gates and simulates without error
C5_Witness ==
    /\ call.name = "compressed"
    /\ call.err = ""
    /\ ngate(circuit) = 3
    /\ nmoment(circuit) = 3
    /\ {heap[circuit.gates[i].gate].N : i \in 1..3} = {1, 2}
    /\ ngate(result) < 3
    /\ simulate(heap, circuit, None).err = ""

\* C6: the circuit that compressed() returns has no more moments and no more
\* gates than the original, and its occupied times are 0..k-1
C6_CompressedIsSmallerAndDense ==
    (call.name = "compressed" /\ call.err = "") =>
        /\ nmoment(result) <= nmoment(circuit)
        /\ ngate(result) <= ngate(circuit)
        /\ result.Ts = [i \in 1..Len(result.Ts) |-> i - 1]
        /\ TimesOf(result) = 0..nmoment(result) - 1

\* a circuit with an empty moment has been compressed into fewer moments
C6_Witness ==
    /\ call.name = "compressed"
    /\ call.err = ""
    /\ circuit.Ts = <<0, 2>>
    /\ nmoment(result) < nmoment(circuit)
    /\ ngate(result) >= 1

(***************************************************************************)
(* Properties of simulate (specification SpecSim).                         *)
(***************************************************************************)
\* bit q of the basis-state index x of N qubits, qubit 0 being the most
\* significant: the bit of weight 2^(N-1-q)
Bit(x, q, N) == (x \div 2 ^ (N - 1 - q)) % 2

\* the index that differs from x in bit q alone
Flip(x, q, N) ==
    IF Bit(x, q, N) = 0 THEN x + 2 ^ (N - 1 - q) ELSE x - 2 ^ (N - 1 - q)

\* the basis index of the state simulate started from
StartIndex ==
    IF call.arg = None THEN 0
    ELSE (CHOOSE x \in 1..Len(call.arg.d) : call.arg.d[x] = 1) - 1

\* C7: qubit 0 is the most significant bit of the basis-state index.  When
\* the only gate of the circuit is a 1-body gate on qubit q, simulate from
\* the basis state b returns amplitudes only at b and at the index that
\* differs from b in the bit of weight 2^(N-1-q), and they are the entries
\* of the gate's matrix for those two values of the bit; for a Hadamard at
\* qubit 0, moment 0, from the all-zero state that is 1/sqrt(2) at the
\* indices 0 and 2^(N-1) and 0 elsewhere.
C7_QubitZeroIsMostSignificant ==
    (call.name = "simulate" /\ ngate(circuit) = 1 /\ heap[circuit.gates[1].gate].N = 1) =>
        LET N == circuit.N
            e == circuit.gates[1]
            q == e.key[1]
            U == GateU(heap[e.gate])
            b == StartIndex
        IN /\ call.err = ""
           /\ \A x \in 0..2 ^ N - 1 :
                 call.ret.d[x + 1] # 0 => x \in {b, Flip(b, q, N)}
           /\ call.ret = Array(U.k, [y \in 1..2 ^ N |->
                                       IF y - 1 \in {b, Flip(b, q, N)}
                                       THEN U.d[2 * Bit(y - 1, q, N) + Bit(b, q, N) + 1]
                                       ELSE 0])
           /\ (e.gate = RefH /\ q = 0 /\ e.T = 0 /\ call.arg = None) =>
                 call.ret = [k |-> 1,
                             d |-> [y \in 1..2 ^ N |->
                                      IF y - 1 \in {0, 2 ^ (N - 1)} THEN 1 ELSE 0]]

\* simulate has returned from the default state for a circuit of three
\* qubits whose only gate is a Hadamard at qubit 0, moment 0, with an
\* amplitude at index 4
C7_Witness ==
    /\ call.name = "simulate"
    /\ call.err = ""
    /\ call.arg = None
    /\ circuit.N = 3
    /\ ngate(circuit) = 1
    /\ circuit.gates[1] = [T |-> 0, key |-> <<0>>, gate |-> RefH]
    /\ call.ret.d[5] = 1

(***************************************************************************)
(* Properties of parameter dependency (specification SpecShare).           *)
(***************************************************************************)
\* derived holds every gate of source at the time moved by where, under the
\* same qubit tuple, and no other gate
SameGatesAt(source, derived, where(_)) ==
    /\ derived.N = source.N
    /\ Len(derived.gates) = Len(source.gates)
    /\ \A i \in 1..Len(source.gates) :
          HasKey(derived, where(source.gates[i].T), source.gates[i].key)

\* the reference under which derived holds the i-th gate of source
Image(source, derived, where(_), i) ==
    GateOf(derived, where(source.gates[i].T), source.gates[i].key)

\* the step is a set_param_values(values) that went through, on the circuit
\* `on`, while the derived circuit held was made by the transform `of`
SetsThrough(of, on) ==
    /\ call'.name = "derived.set_param_values"
    /\ call'.err = ""
    /\ call'.arg.of = of
    /\ call'.arg.on = on

Objects(c) == {c.gates[i].gate : i \in 1..Len(c.gates)}

\* C12: copy() raises nothing and returns a circuit with the same N, the same
\* set of (time, qubit-tuple) keys, equal parameter keys and values and no
\* Gate object in common with the source, which it leaves as it was; after
\* that, no set_param_values on the copy changes a parameter value of the
\* source, and none on the source changes a parameter value of the copy.
C12_CopyHasNoAliasing ==
    [][/\ call'.name = "copy" =>
            /\ call'.err = ""
            /\ circuit' = circuit
            /\ SubSeq(heap', 1, Len(heap)) = heap
            /\ result'.N = circuit.N
            /\ Range(Keys(result')) = Range(Keys(circuit))
            /\ Len(result'.gates) = Len(circuit.gates)
            /\ param_keys(heap', result') = param_keys(heap, circuit)
            /\ param_values(heap', result') = param_values(heap, circuit)
            /\ Objects(result') \cap Objects(circuit) = {}
       /\ SetsThrough("copy", "result") =>
            /\ param_values(heap', circuit) = param_values(heap, circuit)
            /\ param_values(heap', result) = call'.arg.values
       /\ SetsThrough("copy", "circuit") =>
            /\ param_values(heap', result) = param_values(heap, result)
            /\ param_values(heap', circuit) = call'.arg.values
      ]_vars

\* parameters have been set through the source of a copy after others had
\* been set through the copy, and the two circuits of two Ry gates each read
\* different values at every parameter
C12_Witness ==
    /\ call.name = "derived.set_param_values"
    /\ call.err = ""
    /\ call.arg.of = "copy"
    /\ call.arg.on = "circuit"
    /\ nparam(heap, circuit) = 2
    /\ param_values(heap, circuit) = <<2, 3>>
    /\ param_values(heap, result) = <<1, 2>>

(***************************************************************************)
(* Properties of compressed and later parameter changes (SpecFreeze).      *)
(***************************************************************************)
\* the state vector, or the error, that simulating c ends in from each basis
\* state and from the default state
Simulated(h, c) == [wfn \in Basis(c.N) \cup {None} |-> simulate(h, c, wfn)]

\* C13: the circuit compressed() returns has no mutable parameter, nparam = 0
\* and every gate with an empty parameter map, and simulates as the source
\* does with the parameter values current at the call; setting parameters of
\* the source afterwards changes no gate object of the compressed circuit,
\* none of its matrices and not its simulated state.
C13_CompressedIsFrozen ==
    [][/\ (call'.name = "compressed" /\ call'.err = "") =>
            /\ nparam(heap', result') = 0
            /\ \A g \in Objects(result') : heap'[g].params = <<>>
            /\ Simulated(heap', result') = Simulated(heap, circuit)
       /\ SetsThrough("compressed", "circuit") =>
            /\ nparam(heap', result) = 0
            /\ \A g \in Objects(result) :
                  /\ heap'[g] = heap[g]
                  /\ GateU(heap'[g]) = GateU(heap[g])
            /\ Simulated(heap', result) = Simulated(heap, result)
      ]_vars

\* the parameter of an Ry gate next to a CNOT has been set to another value
\* after the circuit was compressed, so that the source now simulates
\* otherwise than the compressed circuit does
C13_Witness ==
    /\ call.name = "derived.set_param_values"
    /\ call.err = ""
    /\ call.arg.of = "compressed"
    /\ call.arg.on = "circuit"
    /\ nparam(heap, circuit) >= 1
    /\ \E i \in 1..Len(circuit.gates) : circuit.gates[i].gate = RefCNOT
    /\ ngate(result) >= 1
    /\ Simulated(heap, result) # Simulated(heap, circuit)

(***************************************************************************)
(* Properties of slicing and stacking (specification SpecSlice).           *)
(***************************************************************************)
\* the (time, qubit-tuple) keys of a circuit, as a set
KeySet(c) == Range(Keys(c))

\* the keys under which subset(Ts) is said to place the gates: every gate of
\* source moment Ts[i] at position i - 1, counted from 0
SlicedKeys(c, Ts) ==
    {<<i - 1, c.gates[j].key>> : <<i, j>> \in
        {p \in (1..Len(Ts)) \X (1..Len(c.gates)) : c.gates[p[2]].T = Ts[p[1]]}}

\* C14 as stated: subset(times) with every entry < nmoment returns, for each
\* position i of the list, every gate of source moment times[i] at
\* (i, same qubit-tuple) and no other gate; it fails if an entry exceeds
\* the moment count.
C14_SubsetAsStated ==
    call.name = "subset" =>
        LET Ts == call.arg.Ts
        IN /\ (\A i \in 1..Len(Ts) : Ts[i] < nmoment(circuit)) =>
                 /\ call.err = ""
                 /\ KeySet(result) = SlicedKeys(circuit, Ts)
           /\ (\E i \in 1..Len(Ts) : Ts[i] > nmoment(circuit)) => call.err # ""

\* subset(times) for a list without a repeated entry: the statement of C14
\* holds, the gates being copies when copy is set and the source's objects
\* otherwise, and the call fails exactly when an entry is >= nmoment
SubsetOfDistinctTimes ==
    call.name = "subset" =>
        LET Ts == call.arg.Ts
        IN /\ call.err = "" <=> \A i \in 1..Len(Ts) : Ts[i] < nmoment(circuit)
           /\ (call.err = "" /\ \A i, j \in 1..Len(Ts) : Ts[i] = Ts[j] => i = j) =>
                 /\ KeySet(result) = SlicedKeys(circuit, Ts)
                 /\ Len(result.gates) = Cardinality(KeySet(result))
           /\ call.err = "" =>
                 KeySet(result) =
                    {<<FirstIndex(Ts, c[1]), c[2]>> : c \in {k \in KeySet(circuit) : k[1] \in Range(Ts)}}

\* the sum of the first n entries of a list of numbers
Total(s, n) == Sum([k \in 1..Len(s) |-> s[k]], 1, n)

\* C15: concatenate(circuits) of circuits of one qubit count raises nothing
\* and places every gate at (T, key) of the i-th circuit at (T + sum of the
\* nmoment of the circuits before it, key) and nothing else, so that ngate
\* and nmoment of the result are the sums of the inputs' ngate and nmoment;
\* no call raises a slot conflict or any other error of add_gate; the call
\* fails if the qubit counts differ.
C15_ConcatenateStacksInTime ==
    call.name = "concatenate" =>
        LET a == call.arg
            n == Len(a.N)
        IN /\ call.err \in {"", "same N", "IndexError"}
           /\ call.err = "IndexError" => n = 0
           /\ (\E k \in 1..n : a.N[k] # a.N[1]) => call.err = "same N"
           /\ (n >= 1 /\ \A k \in 1..n : a.N[k] = a.N[1]) =>
                 /\ call.err = ""
                 /\ result.N = a.N[1]
                 /\ KeySet(result) =
                       UNION {{<<a.keys[k][i][1] + Total(a.nmoment, k - 1), a.keys[k][i][2]>> :
                                  i \in 1..Len(a.keys[k])} : k \in 1..n}
                 /\ ngate(result) = Total([k \in 1..n |-> Len(a.keys[k])], n)
                 /\ nmoment(result) = Total(a.nmoment, n)

\* two circuits of two qubits have been concatenated, the first of three
\* moments with an empty one, the second with a gate that lands at moment 3
C15_Witness ==
    /\ call.name = "concatenate"
    /\ call.err = ""
    /\ Len(call.arg.N) = 2
    /\ call.arg.N[1] = 2
    /\ call.arg.nmoment[1] = 3
    /\ Len(call.arg.keys[1]) = 2
    /\ Len(call.arg.keys[2]) >= 1
    /\ call.arg.nmoment[2] < 3
    /\ \E i \in 1..Len(result.gates) : result.gates[i].T = 3
    /\ ngate(result) = 2 + Len(call.arg.keys[2])

\* C16: nonredundant() raises nothing and returns a circuit with the same
\* number of gates and, gate by gate, the same qubit-tuples, whose occupied
\* times are exactly 0..k-1, k being the number of distinct occupied times
\* of the source, with the time order of every two gates preserved; for a
\* source that is already time-dense every key is unchanged, and
\* nonredundant() of the result is the result.
C16_NonredundantCompactsTimes ==
    call.name = "nonredundant" =>
        LET k == Cardinality(TimesOf(circuit))
            n == Len(circuit.gates)
        IN /\ call.err = ""
           /\ result.N = circuit.N
           /\ Len(result.gates) = n
           /\ \A i \in 1..n : result.gates[i].key = circuit.gates[i].key
           /\ TimesOf(result) = 0..k - 1
           /\ result.Ts = [i \in 1..k |-> i - 1]
           /\ \A i, j \in 1..n :
                 /\ circuit.gates[i].T < circuit.gates[j].T
                       <=> result.gates[i].T < result.gates[j].T
                 /\ circuit.gates[i].T = circuit.gates[j].T
                       <=> result.gates[i].T = result.gates[j].T
           /\ TimesOf(circuit) = 0..k - 1 => Keys(result) = Keys(circuit)
           /\ nonredundant(heap, result) = [err |-> "", circuit |-> result]

\* nonredundant() has been applied to a circuit whose two gates stand at
\* the moments 2 and 1, added in this order, and has moved them to 1 and 0
C16_Witness ==
    /\ call.name = "nonredundant"
    /\ call.err = ""
    /\ Len(circuit.gates) = 2
    /\ circuit.gates[1].T = 2
    /\ circuit.gates[2].T = 1
    /\ result.gates[1].T = 1
    /\ result.gates[2].T = 0

\* C17 as stated: after nonredundant() with its default copy=True, setting a
\* parameter through the returned circuit leaves the source's parameter
\* values unchanged.
C17_NonredundantCopiesGates ==
    [][SetsThrough("nonredundant", "result") =>
           param_values(heap', circuit) = param_values(heap, circuit)]_vars

\* the entries of the source whose qubits are all in the list keys
Kept(c, keys) ==
    {i \in 1..Len(c.gates) : \A m \in 1..Len(c.gates[i].key) : c.gates[i].key[m] \in Range(keys)}

\* C18: deadjoin(qubits), for a list of qubits of the circuit that is not
\* empty, raises nothing and returns a circuit on len(qubits) qubits that
\* holds exactly the source gates all of whose qubits are in the list, each
\* at its original time with every qubit index replaced by a position at
\* which it stands in the list (its position, when the list names it once),
\* as a copy or, with copy unset, as the source's object; a gate with an
\* excluded qubit is dropped whole.  A qubit the circuit does not have fails
\* the call, and so does the empty list, there being no circuit on 0 qubits.
C18_DeadjoinSlicesQubits ==
    call.name = "deadjoin" =>
        LET keys == call.arg.keys
        IN /\ (\E j \in 1..Len(keys) : keys[j] >= circuit.N) <=> call.err = "A >= self.A"
           /\ call.err \in {"", "A >= self.A", "N <= 0"}
           /\ call.err = "N <= 0" => keys = <<>>
           /\ (keys # <<>> /\ \A j \in 1..Len(keys) : keys[j] < circuit.N) =>
                 /\ call.err = ""
                 /\ result.N = Len(keys)
                 /\ Len(result.gates) = Cardinality(Kept(circuit, keys))
                 /\ \A i \in Kept(circuit, keys) :
                       \E j \in 1..Len(result.gates) :
                          LET e == circuit.gates[i]
                              d == result.gates[j]
                          IN /\ d.T = e.T
                             /\ Len(d.key) = Len(e.key)
                             /\ \A m \in 1..Len(e.key) :
                                   /\ d.key[m] \in 0..Len(keys) - 1
                                   /\ keys[d.key[m] + 1] = e.key[m]
                                   /\ \A l \in 1..Len(keys) :
                                         keys[l] = e.key[m] => l <= d.key[m] + 1
                             /\ heap[d.gate] = heap[e.gate]
                             /\ call.arg.copy <=> d.gate # e.gate

\* deadjoin([1]) of a circuit of two qubits with a 2-body gate on (0, 1) and
\* a 1-body gate on qubit 1 has returned the 1-body gate alone, on qubit 0
C18_Witness ==
    /\ call.name = "deadjoin"
    /\ call.err = ""
    /\ call.arg.keys = <<1>>
    /\ circuit.N = 2
    /\ \E i, j \in 1..Len(circuit.gates) :
          /\ circuit.gates[i].key = <<0, 1>>
          /\ circuit.gates[j].key = <<1>>
          /\ circuit.gates[j].T = 2
    /\ result.N = 1
    /\ Keys(result) = << <<2, <<0>> >> >>

(***************************************************************************)
(* Properties of the arrays of a simulation (specification SpecSteps).     *)
(***************************************************************************)
\* C19: simulate and simulate_steps never change the array the caller
\* supplied: before the first next(), at every yield, after the generator
\* has finished or raised, and when simulate has returned, the array holds
\* the amplitudes it was handed in with; and once the generator has run,
\* its two working buffers are two different arrays neither of which is the
\* caller's, the array yielded being one of the two (wfn1 at the yield).
C19_InitialStateNotMutated ==
    (call.name \in {"simulate_steps", "simulate in memory"} /\ call.arg # None) =>
        LET f == call.ret
        IN /\ f.caller = 1
           /\ f.mem[f.caller] = call.arg
           /\ f.state # "created" =>
                 /\ f.wfn1 # f.caller
                 /\ f.wfn2 # f.caller
                 /\ f.wfn1 # f.wfn2
                 /\ f.yielded \in {0, f.wfn1, f.wfn2}
                 /\ f.state = "suspended" => f.yielded = f.wfn1

\* the generator is suspended at the yield of moment 1 of a circuit with one
\* gate in each of the moments 0 and 1, started from a supplied basis state:
\* the buffers have been swapped twice and the array yielded holds other
\* amplitudes than the caller's
C19_Witness ==
    /\ call.name = "simulate_steps"
    /\ call.arg # None
    /\ call.ret.state = "suspended"
    /\ call.ret.T = 1
    /\ TimesOf(circuit) = {0, 1}
    /\ call.ret.wfn1 = 3
    /\ call.ret.mem[call.ret.yielded] # call.arg
    /\ call.ret.mem[call.ret.wfn2] # call.arg

\* simulate over arrays in memory ends as simulate computed on values does:
\* in the same error, or returning an array of the same amplitudes, or None
InMemoryAgrees ==
    call.name = "simulate in memory" =>
        LET r == simulate(heap, circuit, call.arg)
        IN /\ call.err = r.err
           /\ call.err = "" =>
                 IF call.ret.returned = 0 THEN r.wfn = None
                 ELSE call.ret.mem[call.ret.returned] = r.wfn

(***************************************************************************)
(* Properties of simulate from the default state (specification SpecSim).  *)
(***************************************************************************)
\* C20 as stated: simulate() called without an initial state and raising
\* nothing returns a state vector of length 2^N, the one propagated from the
\* all-zero basis state (amplitude 1 at index 0, 0 elsewhere), for every
\* circuit; for a circuit with no gates that is the all-zero basis state.
C20_SimulateFromDefaultState ==
    (call.name = "simulate" /\ call.arg = None /\ call.err = "") =>
        /\ Len(call.ret.d) = 2 ^ circuit.N
        /\ call.ret = simulate(heap, circuit, Reference(circuit.N)).wfn
        /\ ngate(circuit) = 0 => call.ret = Reference(circuit.N)

\* simulate() of a circuit that has a gate: the statement of C20 holds
DefaultStateWithGates ==
    (call.name = "simulate" /\ call.arg = None /\ call.err = "" /\ ngate(circuit) > 0) =>
        /\ Len(call.ret.d) = 2 ^ circuit.N
        /\ call.ret = simulate(heap, circuit, Reference(circuit.N)).wfn

(***************************************************************************)
(* Properties of apply_gate_1 and apply_gate_2 (specification SpecApply).  *)
(***************************************************************************)
\* the basis state of index b of N qubits
BasisState(b, N) == Array(0, [x \in 1..2 ^ N |-> IF x = b + 1 THEN 1 ELSE 0])

\* the index of a basis state
IndexOf(wfn) == (CHOOSE x \in 1..Len(wfn.d) : wfn.d[x] # 0) - 1

\* C21: apply_gate_2 of U at (A, B) ends as apply_gate_2 of U with its two
\* input legs and its two output legs swapped at (B, A) does, in the same
\* error or the same output state; the first tensor factor of U acts on the
\* first named qubit, whichever of A and B is larger: CNOT at (A, B) flips
\* qubit B of a basis state exactly when its qubit A is 1, and X (x) I at
\* (A, B) flips qubit A.
C21_Gate2RespectsQubitOrder ==
    call.name = "apply_gate_2" =>
        LET a == call.arg
            N == circuit.N
            other == apply_gate_2(a.wfn1, ZerosLike(a.wfn1), SwapLegs(a.U), a.B, a.A)
        IN /\ a.A # a.B => call.err = ""
           /\ other.err = call.err
           /\ call.err = "" =>
                 /\ other.wfn = call.ret
                 /\ (a.U = MatrixCX /\ a.wfn1 \in Basis(N)) =>
                       call.ret = BasisState(IF Bit(IndexOf(a.wfn1), a.A, N) = 1
                                             THEN Flip(IndexOf(a.wfn1), a.B, N)
                                             ELSE IndexOf(a.wfn1), N)
                 /\ (a.U = Kron(MatrixX, Eye2) /\ a.wfn1 \in Basis(N)) =>
                       call.ret = BasisState(Flip(IndexOf(a.wfn1), a.A, N), N)

\* CNOT has been applied at (2, 0), the larger qubit named first, to the
\* basis state 001 of three qubits, and has written 101
C21_Witness ==
    /\ call.name = "apply_gate_2"
    /\ call.err = ""
    /\ circuit.N = 3
    /\ call.arg.U = MatrixCX
    /\ call.arg.A = 2
    /\ call.arg.B = 0
    /\ call.arg.wfn1 = BasisState(1, 3)
    /\ call.ret = BasisState(5, 3)

\* the sum of the squares of the integer entries of an array
RECURSIVE SumSq(_, _)
SumSq(d, n) == IF n = 0 THEN 0 ELSE d[n] * d[n] + SumSq(d, n - 1)

\* the squared norm of an array is SumSq / 2^k: the array is normalized
Normalized(wfn) == SumSq(wfn.d, Len(wfn.d)) = 2 ^ wfn.k

\* every matrix handed in is unitary: U times its transpose is the identity
\* (the entries are real)
Transposed(n, U) ==
    [U EXCEPT !.d = [x \in 1..n * n |-> U.d[n * ((x - 1) % n) + ((x - 1) \div n) + 1]]]

IsUnitary(n, U) ==
    Dot(n, U, Transposed(n, U)) = Array(0, [x \in 1..n * n |->
                                                IF (x - 1) \div n = (x - 1) % n THEN 1 ELSE 0])

\* C25: apply_gate_1 and apply_gate_2, handed a unitary matrix and a
\* normalized state, write a state of the same length and of norm 1, at
\* every qubit and for both orders of the two qubits of apply_gate_2.
C25_ApplicationPreservesNorm ==
    (call.name \in {"apply_gate_1", "apply_gate_2"} /\ call.err = "") =>
        /\ IsUnitary(IF call.name = "apply_gate_1" THEN 2 ELSE 4, call.arg.U)
        /\ Normalized(call.arg.wfn1)
        /\ Len(call.ret.d) = Len(call.arg.wfn1.d)
        /\ Normalized(call.ret)

\* a 2-body unitary has been applied with the larger qubit named first to
\* a superposition that two earlier applications made, and has written a
\* superposition
C25_Witness ==
    /\ call.name = "apply_gate_2"
    /\ call.err = ""
    /\ call.pos = MaxDepth
    /\ call.arg.A > call.arg.B
    /\ call.arg.wfn1.k > 0
    /\ call.ret.k > 0
    /\ Cardinality({x \in 1..Len(call.ret.d) : call.ret.d[x] # 0}) >= 4

(***************************************************************************)
(* Properties of gates of more than two qubits (specification SpecArity).  *)
(***************************************************************************)
\* the moments of c that hold a gate of more than two qubits
WideMoments(h, c) == {c.gates[i].T : i \in {j \in 1..Len(c.gates) : h[c.gates[j].gate].N > 2}}

\* C22: for a circuit that holds a gate of arity > 2, compressed() raises,
\* returns no circuit and leaves the source circuit and its gates as they
\* were, and simulate raises; simulate_steps yields the moments before the
\* first one that holds such a gate and raises at that one, never yielding
\* a state for it and never finishing.
C22_WideGateIsFatal ==
    [][/\ (call'.name = "compressed" /\ WideMoments(heap, circuit) # {}) =>
            /\ call'.err = "N > 2"
            /\ result' = NoCircuit
            /\ circuit' = circuit
            /\ heap' = Held(heap, circuit)
       /\ (call'.name = "simulate" /\ WideMoments(heap, circuit) # {}) =>
            /\ call'.err = "N > 2"
            /\ call'.ret = None
            /\ circuit' = circuit
       /\ (call'.name = "simulate_steps" /\ call'.ret.state # "created") =>
            LET f == call'.ret
                wide == WideMoments(heap, circuit)
            IN /\ f.state = "suspended" => \A T \in wide : T > f.T
               /\ f.state = "finished" => wide = {}
               /\ f.state = "raised" =>
                     /\ f.err = "N > 2"
                     /\ f.T \in wide
                     /\ \A T \in wide : T >= f.T
                     /\ f.yielded # 0 => call.ret.state = "suspended" /\ call.ret.T = f.T - 1
      ]_vars

\* next() has raised at moment 1 of a circuit of three qubits with an X gate
\* at moment 0 and a 3-body gate at moment 1, after the yield of moment 0
C22_Witness ==
    /\ call.name = "simulate_steps"
    /\ call.ret.state = "raised"
    /\ call.err = "N > 2"
    /\ call.ret.T = 1
    /\ call.ret.yielded # 0
    /\ circuit.N = 3
    /\ WideMoments(heap, circuit) = {1}
    /\ \E i \in 1..Len(circuit.gates) : circuit.gates[i].T = 0 /\ circuit.gates[i].gate = RefX

(***************************************************************************)
(* Properties of Gate.set_param (specification SpecGate).                  *)
(***************************************************************************)
\* C23: Gate.set_param(name, value) fails exactly when name is not a key of
\* the gate's parameter mapping, and then nothing changes; when name is
\* present the mapping keeps its keys in their order and only the value of
\* name changes, to value; no other gate object changes in either case.
C23_SetParamChecksTheName ==
    [][call'.name = "Gate.set_param" =>
          LET g == call'.pos
              name == call'.arg.name
              before == heap[g]
              after == heap'[g]
          IN /\ (call'.err # "") <=> ~HasParam(before, name)
             /\ Len(heap') = Len(heap)
             /\ \A j \in 1..Len(heap) : j # g => heap'[j] = heap[j]
             /\ ParamNames(after) = ParamNames(before)
             /\ [after EXCEPT !.params = <<>>] = [before EXCEPT !.params = <<>>]
             /\ call'.err # "" => heap' = heap
             /\ call'.err = "" =>
                   /\ ParamOf(after, name) = call'.arg.value
                   /\ \A i \in 1..Len(before.params) :
                         before.params[i][1] # name => after.params[i] = before.params[i]
      ]_vars

\* set_param has failed on a name that a gate of six parameters does not
\* have, after one of its parameters was set to 1
C23_Witness ==
    /\ call.name = "Gate.set_param"
    /\ call.err # ""
    /\ call.arg.name = "phi"
    /\ Len(heap[call.pos].params) = 6
    /\ ParamOf(heap[call.pos], "thetaYZ") = 1
    /\ ParamOf(heap[call.pos], "thetaIY") = 0

(***************************************************************************)
(* Properties of the order of application (specification SpecOrder).       *)
(***************************************************************************)
\* what a generator gives when it is driven to its end from the frame f
\* that next() has left: the (moment, state) pairs yielded after those of
\* acc, and the error that ended it
RECURSIVE Trace(_, _, _, _)
Trace(h, c, f, acc) ==
    IF f.state = "suspended"
    THEN Trace(h, c, Resume(h, c, f), Append(acc, [T |-> f.T, wfn |-> f.mem[f.yielded]]))
    ELSE [yields |-> acc, raised |-> f.err # ""]

\* list(circuit.simulate_steps(wfn)), with the states as they are at their yield
Yields(h, c, wfn) == Trace(h, c, Resume(h, c, NewGenerator(wfn)), <<>>)

\* C24: the order of insertion does not show in simulate_steps.  Whatever
\* next() has yielded for the circuit, a circuit filled with the same
\* placements in any other order yields for the same initial state: the
\* same state at the same moment, the same number of yields when the
\* generator has finished, and an error at the same moment when it has raised.
C24_OrderInMomentIsImmaterial ==
    (call.name = "simulate_steps" /\ call.ret.state # "created") =>
        \A p \in Orders(Len(circuit.gates)) :
           \A ys \in {Yields(heap, Reordered(circuit, p), call.arg)} :
              /\ call.ret.state = "suspended" =>
                    /\ Len(ys.yields) > call.ret.T
                    /\ ys.yields[call.ret.T + 1] =
                          [T |-> call.ret.T, wfn |-> call.ret.mem[call.ret.yielded]]
              /\ call.ret.state = "finished" =>
                    /\ ~ys.raised
                    /\ Len(ys.yields) = call.ret.nm
              /\ call.ret.state = "raised" =>
                    /\ ys.raised
                    /\ Len(ys.yields) = call.ret.T

\* next() has yielded moment 0 of a circuit of three qubits that holds a
\* CNOT and then an H in moment 0, from a basis state that the CNOT changes
C24_Witness ==
    /\ call.name = "simulate_steps"
    /\ call.ret.state = "suspended"
    /\ call.ret.T = 0
    /\ circuit.N = 3
    /\ Len(circuit.gates) = 2
    /\ circuit.gates[1].T = 0 /\ circuit.gates[1].gate = RefCNOT
    /\ circuit.gates[2].T = 0 /\ circuit.gates[2].gate = RefH
    /\ call.arg # None
    /\ Bit(IndexOf(call.arg), circuit.gates[1].key[1], 3) = 1

(***************************************************************************)
(* Properties of compute_pauli_1 (specification SpecPauli).                *)
(***************************************************************************)
\* the sum over the basis indices x (from 0) below n of f[x]
RECURSIVE Over(_, _)
Over(f, n) == IF n = 0 THEN 0 ELSE f[n - 1] + Over(f, n - 1)

\* the expectation values of I, X, Y and Z at qubit A, written out over the
\* basis indices: the total probability, twice the overlap of the
\* amplitudes at x and at x with bit A flipped, 0 for real amplitudes, and
\* the probability of bit A = 0 minus that of bit A = 1
Expectations(wfn, A, N) ==
    Array(2 * wfn.k,
          <<Over([x \in 0..2 ^ N - 1 |-> wfn.d[x + 1] * wfn.d[x + 1]], 2 ^ N),
            Over([x \in 0..2 ^ N - 1 |-> wfn.d[x + 1] * wfn.d[Flip(x, A, N) + 1]], 2 ^ N),
            0,
            Over([x \in 0..2 ^ N - 1 |->
                    IF Bit(x, A, N) = 0 THEN wfn.d[x + 1] * wfn.d[x + 1]
                    ELSE -(wfn.d[x + 1] * wfn.d[x + 1])], 2 ^ N)>>)

Busy(h, c, q) ==
    \E i \in 1..Len(c.gates) : h[c.gates[i].gate].N = 2 /\ q \in Range(c.gates[i].key)

\* the entries of c that are 1-body gates on qubit q
OneBodyOn(h, c, q) ==
    {i \in 1..Len(c.gates) : h[c.gates[i].gate].N = 1 /\ c.gates[i].key = <<q>>}

\* the second pass enters every 1-body gate of c1 that sits on a qubit with
\* a 2-body gate in jammed_gates, for exactly one 2-body gate
AbsorbedOnce(h, c1, plan, nm) ==
    LET two == {i \in 1..Len(c1.gates) : h[c1.gates[i].gate].N = 2}
        into(i) == AbsorbedKeys(plan, nm, c1.gates[i].T, c1.gates[i].key[1], c1.gates[i].key[2])
    IN /\ \A i, j \in two : i # j => into(i) \cap into(j) = {}
       /\ UNION {into(i) : i \in two} =
             {<<c1.gates[i].T, c1.gates[i].key>> :
                 i \in {j \in 1..Len(c1.gates) :
                           h[c1.gates[j].gate].N = 1 /\ Busy(h, c1, c1.gates[j].key[1])}}

\* AbsorbedOnce for the circuit p1 that the first pass leaves
AbsorbedOnceAfter(p1, nm) ==
    AbsorbedOnce(p1.heap, p1.circuit, Plan(p1.heap, p1.circuit, nm).plan, nm)

\* C27: in the circuit compressed() returns, every 1-body gate sits on a
\* qubit that carries no 2-body gate in the source; a qubit without 2-body
\* gate has one 1-body gate in the output when it has 1-body gates in the
\* source and none otherwise; the 2-body gates stay on their qubits; every
\* 1-body gate on a qubit with a 2-body gate goes into exactly one 2-body
\* gate, and the output simulates as the source does from every basis state.
C27_OneBodyGatesSurviveOnWires ==
    (call.name = "compressed" /\ call.err = "") =>
        /\ \A i \in 1..Len(result.gates) :
              heap[result.gates[i].gate].N = 1 => ~Busy(heap, circuit, result.gates[i].key[1])
        /\ \A q \in 0..circuit.N - 1 :
              /\ ~Busy(heap, circuit, q) =>
                    Cardinality(OneBodyOn(heap, result, q)) =
                       IF OneBodyOn(heap, circuit, q) # {} THEN 1 ELSE 0
              /\ Busy(heap, circuit, q) <=> Busy(heap, result, q)
        /\ AbsorbedOnceAfter(JamOneBody(heap, circuit), nmoment(circuit))
        /\ Simulated(heap, result) = Simulated(heap, circuit)

\* compressed() has returned two gates for a circuit of three qubits that
\* holds a CNOT, a 1-body gate on a qubit of the CNOT in another moment and
\* a 1-body gate on the third qubit
C27_Witness ==
    /\ call.name = "compressed"
    /\ call.err = ""
    /\ circuit.N = 3
    /\ Len(circuit.gates) = 3
    /\ \E i, j, l \in 1..3 :
          /\ circuit.gates[i].gate = RefCNOT
          /\ circuit.gates[j].gate = RefH
          /\ circuit.gates[j].key[1] \in Range(circuit.gates[i].key)
          /\ circuit.gates[j].T # circuit.gates[i].T
          /\ circuit.gates[l].gate = RefX
          /\ circuit.gates[l].key[1] \notin Range(circuit.gates[i].key)
    /\ Len(result.gates) = 2

\* the pairs of qubits of a circuit of N qubits
Pairs(N) == {P \in SUBSET (0..N - 1) : Cardinality(P) = 2}

\* the entries of c that are 2-body gates on the pair P, in either key order
TwoBodyOn(h, c, P) ==
    {i \in 1..Len(c.gates) : h[c.gates[i].gate].N = 2 /\ Range(c.gates[i].key) = P}

\* the entries of c that act on a qubit of P without being a 2-body gate on
\* P: the 1-body gates on a qubit of P and the 2-body gates that share one
\* qubit with P
ActivityOn(h, c, P) ==
    {i \in 1..Len(c.gates) : Range(c.gates[i].key) \cap P # {} /\ Range(c.gates[i].key) # P}

\* the 2-body gates on P that begin a run, a run being ended by the gates
\* of enders: those that have no earlier gate on P, or one of enders between
\* them and every earlier gate on P
Heads(h, c, P, enders) ==
    {i \in TwoBodyOn(h, c, P) :
        \A j \in TwoBodyOn(h, c, P) :
           c.gates[j].T < c.gates[i].T =>
              \E l \in enders : c.gates[j].T < c.gates[l].T /\ c.gates[l].T < c.gates[i].T}

\* the 2-body gates that share one qubit with P
Interference(h, c, P) == {i \in ActivityOn(h, c, P) : h[c.gates[i].gate].N = 2}

\* in the output, two 2-body gates on the same pair have a gate between
\* them that acts on a qubit of the pair
FusedInOutput ==
    \A P \in Pairs(circuit.N) :
       \A i, j \in TwoBodyOn(heap, result, P) :
          result.gates[i].T < result.gates[j].T =>
             \E l \in 1..Len(result.gates) :
                /\ result.gates[i].T < result.gates[l].T
                /\ result.gates[l].T < result.gates[j].T
                /\ Range(result.gates[l].key) \cap P # {}

\* C28: in the circuit compressed() returns, two 2-body gates on the same
\* pair of qubits have a gate between them that acts on a qubit of the
\* pair; the source 2-body gates on a pair form runs that only a 2-body
\* gate sharing one qubit with the pair ends (a 1-body gate on a qubit of
\* the pair does not end a run), and the output holds one 2-body gate on the
\* pair for every such run, in the order of the runs in time, keyed in the
\* qubit order of the first gate of its run.
C28_RunsBetweenInterference ==
    (call.name = "compressed" /\ call.err = "") =>
        /\ FusedInOutput
        /\ \A P \in Pairs(circuit.N) :
              \A heads \in {Heads(heap, circuit, P, Interference(heap, circuit, P))} :
                 /\ Cardinality(TwoBodyOn(heap, result, P)) = Cardinality(heads)
                 /\ \A i \in heads :
                       \E o \in TwoBodyOn(heap, result, P) :
                          /\ result.gates[o].key = circuit.gates[i].key
                          /\ Cardinality({o2 \in TwoBodyOn(heap, result, P) :
                                             result.gates[o2].T < result.gates[o].T})
                                = Cardinality({i2 \in heads : circuit.gates[i2].T < circuit.gates[i].T})

\* C28 as stated: a run is ended by any gate on a qubit of the pair that is
\* not a 2-body gate on the pair, a 1-body gate included, and every such run
\* is replaced by a gate keyed in the qubit order of its first gate.
C28_RunsAsStated ==
    (call.name = "compressed" /\ call.err = "") =>
        /\ FusedInOutput
        /\ \A P \in Pairs(circuit.N) :
              \A i \in Heads(heap, circuit, P, ActivityOn(heap, circuit, P)) :
                 \E o \in TwoBodyOn(heap, result, P) :
                    result.gates[o].key = circuit.gates[i].key

\* compressed() has returned one gate, keyed (0, 1), for a CNOT at (0, 1), a
\* later H on one of the two qubits and a still later CNOT at (1, 0)
C28_Witness ==
    /\ call.name = "compressed"
    /\ call.err = ""
    /\ Len(circuit.gates) = 3
    /\ \E i, j, l \in 1..3 :
          /\ circuit.gates[i].gate = RefCNOT /\ circuit.gates[i].key = <<0, 1>>
          /\ circuit.gates[j].gate = RefH /\ circuit.gates[j].key[1] \in {0, 1}
          /\ circuit.gates[l].gate = RefCNOT /\ circuit.gates[l].key = <<1, 0>>
          /\ circuit.gates[i].T < circuit.gates[j].T
          /\ circuit.gates[j].T < circuit.gates[l].T
    /\ Len(result.gates) = 1
    /\ result.gates[1].key = <<0, 1>>

(***************************************************************************)
(* Properties of simulate_steps as a sequence (specification SpecDrive).   *)
(***************************************************************************)
\* moment T of c holds a 2-body gate whose key names one qubit twice, which
\* apply_gate_2 refuses
RefusedAt(c, T) ==
    \E i \in 1..Len(c.gates) :
       c.gates[i].T = T /\ Len(c.gates[i].key) = 2 /\ c.gates[i].key[1] = c.gates[i].key[2]

\* moment T of c holds no gate
EmptyAt(c, T) == \A i \in 1..Len(c.gates) : c.gates[i].T # T

\* the state that the gates of moment T of c make of the state prev
AfterMoment(s, prev) == simulate(s.heap, s.circuit, prev).wfn

\* a step of next() from the frame f to the frame g, T being the moment the
\* loop comes to and prev the state yielded last, or the initial state
NextYields(f, g, T, prev) ==
    IF T >= nmoment(circuit)
    THEN /\ g.state = "finished"
         /\ g.T = T
         /\ g.yielded = f.yielded
    ELSE IF RefusedAt(circuit, T)
    THEN /\ g.state = "raised"
         /\ g.err = "A == B"
         /\ g.yielded = f.yielded
    ELSE /\ g.state = "suspended"
         /\ g.T = T
         /\ g.yielded # 0
         /\ EmptyAt(circuit, T) => g.mem[g.yielded] = prev
         /\ g.mem[g.yielded] = AfterMoment(subset(heap, circuit, <<T>>, TRUE), prev)

RECURSIVE SumOfArities(_, _, _)
SumOfArities(h, gs, n) == IF n = 0 THEN 0 ELSE h[gs[n].gate].N + SumOfArities(h, gs, n - 1)

\* the number of different qubits in the keys of the first n placed gates
RECURSIVE SumOfQubits(_, _)
SumOfQubits(gs, n) == IF n = 0 THEN 0 ELSE Cardinality(Range(gs[n].key)) + SumOfQubits(gs, n - 1)

\* C30 as stated: no stored key names the same qubit twice, the occupancy
\* set TAs has as many entries as the arities of the placed gates sum to,
\* and apply_gate_2 accepts the qubits of every placed 2-body gate.
C30_DistinctSlotsPerGate ==
    /\ \A i \in 1..Len(circuit.gates) :
          Cardinality(Range(circuit.gates[i].key)) = Len(circuit.gates[i].key)
    /\ Cardinality(circuit.TAs) = SumOfArities(heap, circuit.gates, Len(circuit.gates))
    /\ \A i \in 1..Len(circuit.gates) :
          heap[circuit.gates[i].gate].N = 2 =>
             apply_gate_2(Reference(circuit.N), ZerosLike(Reference(circuit.N)),
                          GateU(heap[circuit.gates[i].gate]),
                          circuit.gates[i].key[1], circuit.gates[i].key[2]).err = ""

\* what holds of the occupancy set: it has one entry for every different
\* qubit of every stored key, and apply_gate_2 refuses exactly the placed
\* 2-body gates whose key names one qubit twice
OccupancyCountsQubits ==
    /\ Cardinality(circuit.TAs) = SumOfQubits(circuit.gates, Len(circuit.gates))
    /\ \A i \in 1..Len(circuit.gates) :
          heap[circuit.gates[i].gate].N = 2 =>
             (apply_gate_2(Reference(circuit.N), ZerosLike(Reference(circuit.N)),
                           GateU(heap[circuit.gates[i].gate]),
                           circuit.gates[i].key[1], circuit.gates[i].key[2]).err = "A == B"
                <=> circuit.gates[i].key[1] = circuit.gates[i].key[2])

====
